---- MODULE Spec2Model ----
(***************************************************************************)
(* State-machine model of the FormFlow API gateway (Cloudflare Worker):    *)
(*   - the Stripe webhook lease queue    (src/src/routes/stripe/index.ts)  *)
(*   - the checkout idempotency ledger   (src/src/routes/stripe/index.ts)  *)
(*   - the public submission pipeline    (src/unnamed/part_006)            *)
(* Every handler is an asynchronous function; one action of the model is   *)
(* the code between two awaits, so concurrent requests and scheduler ticks *)
(* interleave exactly at the database / upstream calls.                    *)
(***************************************************************************)
EXTENDS Integers, Sequences, FiniteSets, TLC

VARIABLES
    now,        \* wall clock in seconds (Date.now() / SQL now())
    events,     \* table stripe_webhook_events, keyed by event_id
    order,      \* event ids in created_at order (insertion order)
    tasks,      \* asynchronous executions of processWebhookEventById / retryWebhookEvents
    applied,    \* per event id: number of processStripeEvent runs that returned without throwing
    stable,     \* TRUE once executions no longer die between awaits (isolate eviction, waitUntil cut off)
    webhook,    \* the last POST /stripe/webhook request and the response it got
    ledger,     \* table stripe_checkout_idempotency: the row of (workspace, Idempotency-Key)
    activePaid, \* the workspace has an entitled subscription on a paid plan
    catalog,    \* per request body: an active plan variant with a Stripe price exists
    checkouts,  \* in-flight POST /checkout-session requests
    submissions,\* table form_submissions, in insertion order
    form,       \* the form's published state and published_schema
    quotaCfg,   \* the plan's max_submissions_monthly entitlement
    rateCount,  \* submissions check_request has admitted in the current window
    submit,     \* the in-flight POST /f/:formId/submit request
    subscriptions, \* table subscriptions of the workspace, in created_at order
    workspacePlan, \* workspaces.plan, the cached plan slug
    jobs,       \* executions of processStripeEvent and enforceGracePeriodDowngrades
    mapping,    \* table workspace_billing_customers: the workspace's stripe_customer_id
    liveCustomers, \* the customers that exist upstream (not deleted)
    issued,     \* number of customers the upstream has created so far
    audit,      \* table workspace_billing_customer_events: event_type in insertion order
    call,       \* the in-flight checkout or portal call inside withRecoveredWorkspaceStripeCustomer
    upstreamPrice, \* the active recurring price stripe.prices.list returns
    variants,   \* table plan_variants: stripe_price_id and amount_cents per plan:interval
    parked,     \* a second POST /f/:formId/submit request, waiting at one of its awaits
    parkedCall, \* a second checkout or portal call, waiting at one of its awaits
    draft,      \* the row of table forms: version, draft schema, deleted_at set
    saves       \* in-flight PUT /build/:workspaceId/forms/:formId requests

webVars == <<events, order, tasks, applied, stable, webhook>>
coVars == <<ledger, activePaid, catalog, checkouts>>
subVars == <<submissions, form, quotaCfg, rateCount, submit>>
billVars == <<subscriptions, workspacePlan, jobs>>
custVars == <<mapping, liveCustomers, issued, audit, call>>
syncVars == <<upstreamPrice, variants>>
parkVars == <<parked, parkedCall>>
buildVars == <<draft, saves>>
\* The variables of the catalog sync, of the second in-flight requests and of
\* the builder.
restVars == <<syncVars, parkVars, buildVars>>
vars == <<now, webVars, coVars, subVars, billVars, custVars, restVars>>

(***************************************************************************)
(* Bounds of the model                                                     *)
(***************************************************************************)
MaxNow == 900

TimeSteps == {300}

EventIds == {"evt_1", "evt_2"}
Tasks == {"t1", "t2"}

NULL == "null"
NoTime == 0 - 1

(***************************************************************************)
(* Program constants                                                       *)
(***************************************************************************)
MAX_WEBHOOK_ATTEMPTS == 8
DEFAULT_WEBHOOK_MAX_BODY_BYTES == 262144
DEFAULT_WEBHOOK_CLAIM_TTL_SECONDS == 300
DEFAULT_RETRY_BATCH_SIZE == 200

Min(a, b) == IF a <= b THEN a ELSE b
Max(a, b) == IF a >= b THEN a ELSE b

RECURSIVE Pow2(_)
Pow2(n) == IF n = 0 THEN 1 ELSE 2 * Pow2(n - 1)

\* env.STRIPE_WEBHOOK_CLAIM_TTL_SECONDS and env.STRIPE_RETRY_BATCH_SIZE are unset:
\* parsePositiveInt falls back to the defaults.
parseWebhookClaimTtlSeconds == DEFAULT_WEBHOOK_CLAIM_TTL_SECONDS
parseRetryBatchSize == DEFAULT_RETRY_BATCH_SIZE

\* Variant without the one-hour cap.
computeRetryBackoffSeconds_NoCap(attempts) ==
    LET exponent == Max(0, Min(attempts, 10))
    IN  15 * Pow2(exponent)

computeRetryBackoffSeconds(attempts) ==
    LET exponent == Max(0, Min(attempts, 10))
    IN  Min(3600, 15 * Pow2(exponent))

(***************************************************************************)
(* Table stripe_webhook_events                                             *)
(***************************************************************************)
AbsentRow ==
    [status |-> "absent", attempts |-> 0, processor_id |-> NULL,
     claim_expires_at |-> NoTime, next_attempt_at |-> NoTime]

\* The row written by the insert of POST /webhook.
PendingRow ==
    [status |-> "pending", attempts |-> 0, processor_id |-> NULL,
     claim_expires_at |-> NoTime, next_attempt_at |-> NoTime]

\* A row that has failed `k` attempts and is due again: a state of the table
\* the program reaches after k failed processings.
FailedRow(k) ==
    [status |-> "failed", attempts |-> k, processor_id |-> NULL,
     claim_expires_at |-> NoTime, next_attempt_at |-> 0]

\* A row whose processing finished with a completed write.
CompletedRow ==
    [status |-> "completed", attempts |-> 1, processor_id |-> NULL,
     claim_expires_at |-> NoTime, next_attempt_at |-> NoTime]

\* SQL function claim_stripe_webhook_event(p_event_id, p_processor_id,
\* p_ttl_seconds, p_max_attempts): the row is claimable when it is pending or
\* failed and due, or processing with an expired claim, and below the ceiling.
Claimable(row, max_attempts, t) ==
    /\ row.status # "absent"
    /\ row.attempts < max_attempts
    /\ \/ /\ row.status \in {"pending", "failed"}
          /\ (row.next_attempt_at = NoTime \/ row.next_attempt_at <= t)
       \/ /\ row.status = "processing"
          /\ (row.claim_expires_at = NoTime \/ row.claim_expires_at < t)

claim_stripe_webhook_event(rows, event_id, processor_id, ttl_seconds, max_attempts, t) ==
    IF Claimable(rows[event_id], max_attempts, t)
    THEN [rows EXCEPT ![event_id] =
            [status |-> "processing",
             attempts |-> rows[event_id].attempts + 1,
             processor_id |-> processor_id,
             claim_expires_at |-> t + ttl_seconds,
             next_attempt_at |-> rows[event_id].next_attempt_at]]
    ELSE rows

\* A claim that flips the row to processing without the lease test
\* (the pre-lease "simple status flip").
claimWebhookEvent_Flip(rows, eventId, processorId, t) ==
    IF rows[eventId].status = "absent"
    THEN rows
    ELSE [rows EXCEPT ![eventId] =
            [status |-> "processing",
             attempts |-> rows[eventId].attempts + 1,
             processor_id |-> processorId,
             claim_expires_at |-> t + parseWebhookClaimTtlSeconds,
             next_attempt_at |-> rows[eventId].next_attempt_at]]

\* claimWebhookEvent: the table after the RPC; the claim succeeded iff the row
\* now names processorId as its processor.
claimWebhookEvent(rows, eventId, processorId, t) ==
    claim_stripe_webhook_event(rows, eventId, processorId,
                               parseWebhookClaimTtlSeconds, MAX_WEBHOOK_ATTEMPTS, t)

\* markWebhookEvent: UPDATE stripe_webhook_events SET ... WHERE event_id = eventId.
\* The update is keyed by event_id alone.
markWebhookEvent(rows, eventId, updates) ==
    IF rows[eventId].status = "absent"
    THEN rows
    ELSE [rows EXCEPT ![eventId] =
            [status |-> updates.status,
             attempts |-> rows[eventId].attempts,
             processor_id |-> NULL,
             claim_expires_at |-> NoTime,
             next_attempt_at |-> updates.next_attempt_at]]

(***************************************************************************)
(* Asynchronous executions                                                 *)
(***************************************************************************)
IdleTask == [pc |-> "idle", event |-> NULL, queue |-> <<>>, attempts |-> 0]

\* The loop of retryWebhookEvents: the next id of the batch, or the end.
NextOf(task) ==
    IF task.queue = <<>>
    THEN IdleTask
    ELSE [pc |-> "claim", event |-> Head(task.queue),
          queue |-> Tail(task.queue), attempts |-> 0]

RECURSIVE SelectSeq2(_, _)
SelectSeq2(s, keep) ==
    IF s = <<>> THEN <<>>
    ELSE IF Head(s) \in keep THEN <<Head(s)>> \o SelectSeq2(Tail(s), keep)
         ELSE SelectSeq2(Tail(s), keep)

Limit(s, n) == IF Len(s) <= n THEN s ELSE SubSeq(s, 1, n)

\* A due select that leaves out pending rows (retries only recorded failures).
DueIds_FailedOnly ==
    Limit(SelectSeq2(order,
            {e \in EventIds :
                /\ events[e].status = "failed"
                /\ events[e].attempts < MAX_WEBHOOK_ATTEMPTS
                /\ (events[e].next_attempt_at = NoTime \/ events[e].next_attempt_at <= now)}),
          parseRetryBatchSize)

\* A retry tick without the stale-lease select.
StaleIds_None == <<>>

\* The two selects of retryWebhookEvents, oldest first, capped by the batch size.
DueIds ==
    Limit(SelectSeq2(order,
            {e \in EventIds :
                /\ events[e].status \in {"pending", "failed"}
                /\ events[e].attempts < MAX_WEBHOOK_ATTEMPTS
                /\ (events[e].next_attempt_at = NoTime \/ events[e].next_attempt_at <= now)}),
          parseRetryBatchSize)

StaleIds ==
    LET remaining == Max(0, parseRetryBatchSize - Len(DueIds))
    IN  Limit(SelectSeq2(order,
                {e \in EventIds :
                    /\ events[e].status = "processing"
                    /\ events[e].attempts < MAX_WEBHOOK_ATTEMPTS
                    /\ (events[e].claim_expires_at = NoTime \/ events[e].claim_expires_at < now)}),
              remaining)

(***************************************************************************)
(* Actions of the webhook queue                                            *)
(***************************************************************************)

\* POST /stripe/webhook with a verified event whose id has no row: insert the
\* pending row, hand processWebhookEventById to waitUntil, answer {received}.
WebhookIngest(e, t) ==
    /\ events[e].status = "absent"
    /\ tasks[t].pc = "idle"
    /\ events' = [events EXCEPT ![e] = PendingRow]
    /\ order' = Append(order, e)
    /\ tasks' = [tasks EXCEPT ![t] =
                    [pc |-> "claim", event |-> e, queue |-> <<>>, attempts |-> 0]]
    /\ UNCHANGED <<webhook, billVars, custVars, coVars, subVars, now, applied, stable, restVars>>

\* POST /stripe/webhook with an event id that already has a row: the insert
\* fails on the unique index (23505) and the handler answers duplicate.
WebhookDuplicate(e) ==
    /\ events[e].status # "absent"
    /\ UNCHANGED vars

\* env.STRIPE_WEBHOOK_MAX_BODY_BYTES is unset: parsePositiveInt falls back to
\* the default.
parseWebhookMaxBodyBytes == DEFAULT_WEBHOOK_MAX_BODY_BYTES

\* Content-Length header values: absent (or not a number), at the limit, above.
NoLength == 0 - 1
ContentLengths == {NoLength, DEFAULT_WEBHOOK_MAX_BODY_BYTES, DEFAULT_WEBHOOK_MAX_BODY_BYTES + 1}
\* Byte lengths of the body as sent.
PayloadSizes == {DEFAULT_WEBHOOK_MAX_BODY_BYTES, DEFAULT_WEBHOOK_MAX_BODY_BYTES + 1}

\* The execution slot of the waitUntil task of POST /webhook.
RequestTask == "t1"
\* The execution slot of the scheduled retryWebhookEvents.
TickTask == "t2"

IdleWebhook ==
    [signature |-> FALSE, contentLength |-> NoLength, payloadBytes |-> 0,
     verified |-> FALSE, dbError |-> FALSE, event |-> NULL,
     status |-> 0, duplicate |-> FALSE, scheduled |-> FALSE]

\* Variant that trusts the Content-Length header and does not measure the body.
webhookGuards_HeaderOnly(signature, contentLength, payloadBytes, verified) ==
    LET maxBytes == parseWebhookMaxBodyBytes
    IN  IF ~signature THEN 400
        ELSE IF contentLength # NoLength /\ contentLength > maxBytes THEN 413
        ELSE IF ~verified THEN 400
        ELSE 0

\* The status the guards of POST /webhook answer with before the insert, 0
\* when the request passes them all.
webhookGuards(signature, contentLength, payloadBytes, verified) ==
    LET maxBytes == parseWebhookMaxBodyBytes
    IN  IF ~signature THEN 400
        ELSE IF contentLength # NoLength /\ contentLength > maxBytes THEN 413
        ELSE IF payloadBytes > maxBytes THEN 413
        ELSE IF ~verified THEN 400
        ELSE 0

\* Variant that ignores the unique violation: a duplicate delivery is scheduled
\* for processing like a first delivery.
WebhookRequest_Reprocess(signature, contentLength, payloadBytes, verified, dbError, e) ==
    LET rejected == webhookGuards(signature, contentLength, payloadBytes, verified)
        request == [signature |-> signature, contentLength |-> contentLength,
                    payloadBytes |-> payloadBytes, verified |-> verified,
                    dbError |-> dbError, event |-> e,
                    status |-> 0, duplicate |-> FALSE, scheduled |-> FALSE]
    IN  IF rejected # 0
        THEN /\ webhook' = [request EXCEPT !.status = rejected]
             /\ UNCHANGED <<events, order, tasks>>
        ELSE IF dbError
        THEN /\ webhook' = [request EXCEPT !.status = 500]
             /\ UNCHANGED <<events, order, tasks>>
        ELSE /\ tasks[RequestTask].pc = "idle"
             /\ events' = [events EXCEPT ![e] =
                              IF @.status = "absent" THEN PendingRow ELSE @]
             /\ order' = IF events[e].status = "absent" THEN Append(order, e) ELSE order
             /\ tasks' = [tasks EXCEPT ![RequestTask] =
                             [pc |-> "claim", event |-> e, queue |-> <<>>, attempts |-> 0]]
             /\ webhook' = [request EXCEPT !.status = 200, !.scheduled = TRUE]

\* POST /stripe/webhook, the whole handler: the guards, the insert and the
\* waitUntil.  verified is the outcome of constructEventAsync, dbError an insert
\* error other than the unique violation.
WebhookRequest(signature, contentLength, payloadBytes, verified, dbError, e) ==
    LET rejected == webhookGuards(signature, contentLength, payloadBytes, verified)
        request == [signature |-> signature, contentLength |-> contentLength,
                    payloadBytes |-> payloadBytes, verified |-> verified,
                    dbError |-> dbError, event |-> e,
                    status |-> 0, duplicate |-> FALSE, scheduled |-> FALSE]
    IN  IF rejected # 0
        THEN /\ webhook' = [request EXCEPT !.status = rejected]
             /\ UNCHANGED <<events, order, tasks>>
        ELSE IF dbError
        THEN /\ webhook' = [request EXCEPT !.status = 500]
             /\ UNCHANGED <<events, order, tasks>>
        ELSE IF events[e].status # "absent"
        THEN /\ webhook' = [request EXCEPT !.status = 200, !.duplicate = TRUE]
             /\ UNCHANGED <<events, order, tasks>>
        ELSE /\ tasks[RequestTask].pc = "idle"
             /\ events' = [events EXCEPT ![e] = PendingRow]
             /\ order' = Append(order, e)
             /\ tasks' = [tasks EXCEPT ![RequestTask] =
                             [pc |-> "claim", event |-> e, queue |-> <<>>, attempts |-> 0]]
             /\ webhook' = [request EXCEPT !.status = 200, !.scheduled = TRUE]

WebhookRequestStep ==
    /\ \E signature \in BOOLEAN, contentLength \in ContentLengths,
          payloadBytes \in PayloadSizes, verified \in BOOLEAN,
          dbError \in BOOLEAN, e \in EventIds :
            WebhookRequest(signature, contentLength, payloadBytes, verified, dbError, e)
    /\ UNCHANGED <<billVars, custVars, coVars, subVars, now, applied, stable, restVars>>

\* A scheduler tick running retryWebhookEvents: select the batch.
RetryTick(t) ==
    /\ tasks[t].pc = "idle"
    /\ LET ids == DueIds \o StaleIds
       IN  /\ ids # <<>>
           /\ tasks' = [tasks EXCEPT ![t] =
                          [pc |-> "claim", event |-> Head(ids),
                           queue |-> Tail(ids), attempts |-> 0]]
    /\ UNCHANGED <<webhook, billVars, custVars, coVars, subVars, now, events, order, applied, stable, restVars>>

\* processWebhookEventById, first await: the claim RPC.
Claim(t) ==
    /\ tasks[t].pc = "claim"
    /\ LET e == tasks[t].event
           rows == claimWebhookEvent(events, e, t, now)
           won == rows # events
       IN  /\ events' = rows
           /\ tasks' = [tasks EXCEPT ![t] =
                          IF won
                          THEN [@ EXCEPT !.pc = "processing", !.attempts = rows[e].attempts]
                          ELSE NextOf(@)]
    /\ UNCHANGED <<webhook, billVars, custVars, coVars, subVars, now, order, applied, stable, restVars>>

\* processStripeEvent returns: the event has been applied.
ProcessOk(t) ==
    /\ tasks[t].pc = "processing"
    /\ applied' = [applied EXCEPT ![tasks[t].event] = @ + 1]
    /\ tasks' = [tasks EXCEPT ![t].pc = "ok"]
    /\ UNCHANGED <<webhook, billVars, custVars, coVars, subVars, now, events, order, stable, restVars>>

\* processStripeEvent throws (upstream error, unresolved workspace, ...).
ProcessFail(t) ==
    /\ tasks[t].pc = "processing"
    /\ tasks' = [tasks EXCEPT ![t].pc = "err"]
    /\ UNCHANGED <<webhook, billVars, custVars, coVars, subVars, now, events, order, applied, stable, restVars>>

\* The completed write of processWebhookEventById.
MarkCompleted(t) ==
    /\ tasks[t].pc = "ok"
    /\ events' = markWebhookEvent(events, tasks[t].event,
                     [status |-> "completed", next_attempt_at |-> NoTime])
    /\ tasks' = [tasks EXCEPT ![t] = NextOf(@)]
    /\ UNCHANGED <<webhook, billVars, custVars, coVars, subVars, now, order, applied, stable, restVars>>

\* The failed write of processWebhookEventById (catch branch).
MarkFailed(t) ==
    /\ tasks[t].pc = "err"
    /\ events' = markWebhookEvent(events, tasks[t].event,
                     [status |-> "failed",
                      next_attempt_at |-> now + computeRetryBackoffSeconds(tasks[t].attempts)])
    /\ tasks' = [tasks EXCEPT ![t] = NextOf(@)]
    /\ UNCHANGED <<webhook, billVars, custVars, coVars, subVars, now, order, applied, stable, restVars>>

\* The execution dies between two awaits: nothing it holds is released.
Crash(t) ==
    /\ tasks[t].pc # "idle"
    /\ ~stable
    /\ tasks' = [tasks EXCEPT ![t] = IdleTask]
    /\ UNCHANGED <<webhook, billVars, custVars, coVars, subVars, now, events, order, applied, stable, restVars>>

\* From here on every execution runs to its end.
Stabilize ==
    /\ ~stable
    /\ stable' = TRUE
    /\ UNCHANGED <<webhook, billVars, custVars, coVars, subVars, now, events, order, tasks, applied, restVars>>

AdvanceTime(d) ==
    /\ now + d <= MaxNow
    /\ now' = now + d
    /\ UNCHANGED <<billVars, custVars, webVars, coVars, subVars, restVars>>

(***************************************************************************)
(* Specification of the webhook queue                                      *)
(***************************************************************************)
(***************************************************************************)
(* Checkout idempotency ledger: POST /workspaces/:id/checkout-session      *)
(***************************************************************************)

\* Latest clock value of the checkout model, in milliseconds.
MaxCheckoutNow == 86400000

CheckoutTimeSteps == {86400000}

CHECKOUT_IDEMPOTENCY_TTL_MS == 86400000

Requests == {"r1", "r2"}
Users == {"u_1", "u_2"}
Bodies == {"pro:monthly", "business:yearly"}
\* The bodies whose catalog variant comes and goes in the model.
DriftingBodies == {"pro:monthly"}
WorkspaceId == "ws_1"
ClientKey == "K1"

\* plan_variants.id of the active usd variant of (plan_slug, interval).
VariantId(body) == IF body = "pro:monthly" THEN "pv_pro_m" ELSE "pv_bus_y"

\* resolveCheckoutPlanVariant: the priced active variant, or NULL where the
\* function throws CatalogOutOfSyncError after the forced catalog sync.
resolveCheckoutPlanVariant(cat, body) ==
    IF cat[body] THEN VariantId(body) ELSE NULL

\* SHA-256 over the JSON of the three fields: equal exactly when they are equal.
buildCheckoutRequestFingerprint(workspaceId, planVariantId, userId) ==
    <<workspaceId, planVariantId, IF userId = NULL THEN "anonymous" ELSE userId>>

buildStripeCheckoutIdempotencyKey(workspaceId, planVariantId, clientIdempotencyKey) ==
    <<"checkout:v1", workspaceId, planVariantId, clientIdempotencyKey>>

\* stripe.checkout.sessions.create under an idempotency key: Stripe answers
\* the same session for the same key.
SessionOf(stripeIdempotencyKey) == <<"cs", stripeIdempotencyKey[3]>>

isExpiredIso(value, t) == value <= t

NoLedgerRow ==
    [status |-> "absent", plan_variant_id |-> NULL, request_fingerprint |-> NULL,
     stripe_checkout_session_id |-> NULL, expires_at |-> NoTime]

NoResponse == [kind |-> "none", session |-> NULL]

Response(kind, session) == [kind |-> kind, session |-> session]

\* A resolver without the completed branch: a completed row falls through to
\* the in_progress transition.
resolveExistingIdempotencyRow_NoReplay(existingRow, requestFingerprint, t) ==
    IF existingRow.status = "absent" THEN NoResponse
    ELSE IF existingRow.request_fingerprint # requestFingerprint
         THEN Response("IDEMPOTENCY_KEY_REUSED_WITH_DIFFERENT_PAYLOAD", NULL)
    ELSE IF isExpiredIso(existingRow.expires_at, t)
         THEN Response("IDEMPOTENCY_KEY_EXPIRED", NULL)
    ELSE IF existingRow.status = "in_progress"
         THEN Response("CHECKOUT_IN_PROGRESS", NULL)
    ELSE NoResponse

\* A resolver that answers a completed row before it compares fingerprints.
resolveExistingIdempotencyRow_ReplayFirst(existingRow, requestFingerprint, t) ==
    IF existingRow.status = "absent" THEN NoResponse
    ELSE IF existingRow.status = "completed" /\ existingRow.stripe_checkout_session_id # NULL
         THEN Response("idempotent_replay", existingRow.stripe_checkout_session_id)
    ELSE IF existingRow.request_fingerprint # requestFingerprint
         THEN Response("IDEMPOTENCY_KEY_REUSED_WITH_DIFFERENT_PAYLOAD", NULL)
    ELSE IF isExpiredIso(existingRow.expires_at, t)
         THEN Response("IDEMPOTENCY_KEY_EXPIRED", NULL)
    ELSE IF existingRow.status = "in_progress"
         THEN Response("CHECKOUT_IN_PROGRESS", NULL)
    ELSE NoResponse

\* A resolver without the in_progress branch: a request meeting a running
\* row goes on to the transition.
resolveExistingIdempotencyRow_NoInProgress(existingRow, requestFingerprint, t) ==
    IF existingRow.status = "absent" THEN NoResponse
    ELSE IF existingRow.request_fingerprint # requestFingerprint
         THEN Response("IDEMPOTENCY_KEY_REUSED_WITH_DIFFERENT_PAYLOAD", NULL)
    ELSE IF isExpiredIso(existingRow.expires_at, t)
         THEN Response("IDEMPOTENCY_KEY_EXPIRED", NULL)
    ELSE IF existingRow.status = "completed" /\ existingRow.stripe_checkout_session_id # NULL
         THEN Response("idempotent_replay", existingRow.stripe_checkout_session_id)
    ELSE NoResponse

\* resolveExistingIdempotencyRow: the response the existing row dictates, or
\* NoResponse (null) when the request goes on.
resolveExistingIdempotencyRow(existingRow, requestFingerprint, t) ==
    IF existingRow.status = "absent" THEN NoResponse
    ELSE IF existingRow.request_fingerprint # requestFingerprint
         THEN Response("IDEMPOTENCY_KEY_REUSED_WITH_DIFFERENT_PAYLOAD", NULL)
    ELSE IF isExpiredIso(existingRow.expires_at, t)
         THEN Response("IDEMPOTENCY_KEY_EXPIRED", NULL)
    ELSE IF existingRow.status = "completed" /\ existingRow.stripe_checkout_session_id # NULL
         THEN Response("idempotent_replay", existingRow.stripe_checkout_session_id)
    ELSE IF existingRow.status = "in_progress"
         THEN Response("CHECKOUT_IN_PROGRESS", NULL)
    ELSE NoResponse

\* A request slot. `replay`, `prior` and `created` are history: the request
\* started as a repeat of a completed, unexpired row with the same body; what
\* the row of its key was when it started; the request has called
\* stripe.checkout.sessions.create.
IdleCheckout ==
    [pc |-> "idle", user |-> NULL, body |-> NULL, variant |-> NULL,
     fresh |-> FALSE, session |-> NULL, err |-> NULL,
     response |-> NoResponse, replay |-> FALSE, prior |-> "none",
     created |-> FALSE]

\* The row of the key as a starting request with this body meets it.
PriorRow(body) ==
    IF ledger.status = "absent" THEN "none"
    ELSE IF ledger.expires_at <= now THEN "expired"
    ELSE IF ledger.plan_variant_id # VariantId(body) THEN "different_payload"
    ELSE "same_payload"

\* The handler returns: the slot keeps the response and the history only.
Respond(req, resp) ==
    [IdleCheckout EXCEPT !.pc = "done", !.response = resp,
                         !.replay = req.replay, !.prior = req.prior,
                         !.created = req.created]

\* The handler throws inside the try block: the catch block runs next.
Thrown(req, err) == [req EXCEPT !.pc = "catch", !.err = err]

Fingerprint(req) == buildCheckoutRequestFingerprint(WorkspaceId, req.variant, req.user)

\* A request arrives (header, role and plan checks passed).
CheckoutStart(r, user, body) ==
    /\ checkouts[r].pc \in {"idle", "done"}
    /\ checkouts' = [checkouts EXCEPT ![r] =
          [IdleCheckout EXCEPT
              !.pc = "paid_check", !.user = user, !.body = body,
              !.prior = PriorRow(body),
              !.replay = /\ ledger.status = "completed"
                         /\ ledger.plan_variant_id = VariantId(body)
                         /\ now < ledger.expires_at]]
    /\ UNCHANGED <<billVars, custVars, now, webVars, subVars, ledger, activePaid, catalog, restVars>>

\* A handler without the paid-subscription branch: every request goes on to
\* the plan variant and the ledger.
CheckoutPaidCheck_Skip(r) ==
    /\ checkouts[r].pc = "paid_check"
    /\ checkouts' = [checkouts EXCEPT ![r] = [@ EXCEPT !.pc = "resolve"]]
    /\ UNCHANGED <<billVars, custVars, now, webVars, subVars, ledger, activePaid, catalog, restVars>>

\* findEntitledPaidSubscription: an entitled paid workspace is sent to the
\* billing portal before the ledger is read.
CheckoutPaidCheck(r) ==
    /\ checkouts[r].pc = "paid_check"
    /\ checkouts' = [checkouts EXCEPT ![r] =
          IF activePaid THEN Respond(@, Response("ALREADY_SUBSCRIBED", NULL))
          ELSE [@ EXCEPT !.pc = "resolve"]]
    /\ UNCHANGED <<billVars, custVars, now, webVars, subVars, ledger, activePaid, catalog, restVars>>

\* resolveCheckoutPlanVariant, then the fingerprint and the upstream key.
CheckoutResolve(r) ==
    /\ checkouts[r].pc = "resolve"
    /\ LET variant == resolveCheckoutPlanVariant(catalog, checkouts[r].body)
       IN  checkouts' = [checkouts EXCEPT ![r] =
              IF variant = NULL THEN Thrown(@, "CATALOG_OUT_OF_SYNC")
              ELSE [@ EXCEPT !.pc = "get_row", !.variant = variant]]
    /\ UNCHANGED <<billVars, custVars, now, webVars, subVars, ledger, activePaid, catalog, restVars>>

\* getCheckoutIdempotencyRow and resolveExistingIdempotencyRow on its result.
CheckoutGetRow(r) ==
    /\ checkouts[r].pc = "get_row"
    /\ LET existingResponse ==
               resolveExistingIdempotencyRow(ledger, Fingerprint(checkouts[r]), now)
       IN  checkouts' = [checkouts EXCEPT ![r] =
              IF existingResponse # NoResponse THEN Respond(@, existingResponse)
              ELSE IF ledger.status = "absent" THEN [@ EXCEPT !.pc = "insert"]
              ELSE [@ EXCEPT !.pc = "transition"]]
    /\ UNCHANGED <<billVars, custVars, now, webVars, subVars, ledger, activePaid, catalog, restVars>>

\* The insert of the in_progress row; a unique violation (23505) sends the
\* request to reload the row.
CheckoutInsert(r) ==
    /\ checkouts[r].pc = "insert"
    /\ IF ledger.status = "absent"
       THEN /\ ledger' = [status |-> "in_progress",
                          plan_variant_id |-> checkouts[r].variant,
                          request_fingerprint |-> Fingerprint(checkouts[r]),
                          stripe_checkout_session_id |-> NULL,
                          expires_at |-> now + CHECKOUT_IDEMPOTENCY_TTL_MS]
            /\ checkouts' = [checkouts EXCEPT ![r] =
                                [@ EXCEPT !.pc = "create", !.fresh = TRUE]]
       ELSE /\ checkouts' = [checkouts EXCEPT ![r] = [@ EXCEPT !.pc = "reload"]]
            /\ UNCHANGED ledger
    /\ UNCHANGED <<billVars, custVars, now, webVars, subVars, activePaid, catalog, restVars>>

\* After 23505: reload the row and resolve it again.
CheckoutReload(r) ==
    /\ checkouts[r].pc = "reload"
    /\ LET racedExistingResponse ==
               resolveExistingIdempotencyRow(ledger, Fingerprint(checkouts[r]), now)
       IN  checkouts' = [checkouts EXCEPT ![r] =
              IF racedExistingResponse # NoResponse THEN Respond(@, racedExistingResponse)
              ELSE IF ledger.status = "absent" THEN Thrown(@, "STRIPE_CHECKOUT_SESSION_FAILED")
              ELSE [@ EXCEPT !.pc = "transition"]]
    /\ UNCHANGED <<billVars, custVars, now, webVars, subVars, ledger, activePaid, catalog, restVars>>

\* The guarded update to in_progress of a row the request did not insert.
CheckoutTransition(r) ==
    /\ checkouts[r].pc = "transition"
    /\ IF /\ ledger.status \notin {"absent", "completed"}
          /\ ledger.request_fingerprint = Fingerprint(checkouts[r])
          /\ ledger.expires_at > now
       THEN /\ ledger' = [ledger EXCEPT !.status = "in_progress"]
            /\ checkouts' = [checkouts EXCEPT ![r] = [@ EXCEPT !.pc = "create"]]
       ELSE /\ checkouts' = [checkouts EXCEPT ![r] = [@ EXCEPT !.pc = "post_transition"]]
            /\ UNCHANGED ledger
    /\ UNCHANGED <<billVars, custVars, now, webVars, subVars, activePaid, catalog, restVars>>

\* No row was transitioned: reload, resolve, and throw when nothing applies.
CheckoutPostTransition(r) ==
    /\ checkouts[r].pc = "post_transition"
    /\ LET postTransitionResponse ==
               resolveExistingIdempotencyRow(ledger, Fingerprint(checkouts[r]), now)
       IN  checkouts' = [checkouts EXCEPT ![r] =
              IF postTransitionResponse # NoResponse THEN Respond(@, postTransitionResponse)
              ELSE Thrown(@, "STRIPE_CHECKOUT_SESSION_FAILED")]
    /\ UNCHANGED <<billVars, custVars, now, webVars, subVars, ledger, activePaid, catalog, restVars>>

\* withRecoveredWorkspaceStripeCustomer + stripe.checkout.sessions.create.
CheckoutCreate(r) ==
    /\ checkouts[r].pc = "create"
    /\ LET stripeIdempotencyKey ==
               buildStripeCheckoutIdempotencyKey(WorkspaceId, checkouts[r].variant, ClientKey)
       IN  checkouts' = [checkouts EXCEPT ![r] =
              [@ EXCEPT !.pc = "complete", !.created = TRUE,
                        !.session = SessionOf(stripeIdempotencyKey)]]
    /\ UNCHANGED <<billVars, custVars, now, webVars, subVars, ledger, activePaid, catalog, restVars>>

\* A completion write that records the status without the session.
CheckoutComplete_StatusOnly(r) ==
    /\ checkouts[r].pc = "complete"
    /\ ledger' = IF ledger.status = "absent" THEN ledger
                 ELSE [ledger EXCEPT !.status = "completed"]
    /\ checkouts' = [checkouts EXCEPT ![r] =
                        Respond(@, Response("checkout", checkouts[r].session))]
    /\ UNCHANGED <<billVars, custVars, now, webVars, subVars, activePaid, catalog, restVars>>

\* The completion write, keyed by workspace and idempotency key only.
CheckoutComplete(r) ==
    /\ checkouts[r].pc = "complete"
    /\ ledger' = IF ledger.status = "absent" THEN ledger
                 ELSE [ledger EXCEPT !.status = "completed",
                                     !.stripe_checkout_session_id = checkouts[r].session]
    /\ checkouts' = [checkouts EXCEPT ![r] =
                        Respond(@, Response("checkout", checkouts[r].session))]
    /\ UNCHANGED <<billVars, custVars, now, webVars, subVars, activePaid, catalog, restVars>>

\* An awaited database or Stripe call inside the try block rejects.
CheckoutThrow(r) ==
    /\ checkouts[r].pc \in {"paid_check", "get_row", "insert", "reload", "transition",
                            "post_transition", "create", "complete"}
    /\ checkouts' = [checkouts EXCEPT ![r] = Thrown(@, "STRIPE_CHECKOUT_SESSION_FAILED")]
    /\ UNCHANGED <<billVars, custVars, now, webVars, subVars, ledger, activePaid, catalog, restVars>>

\* A catch block whose update lacks the status guard: every row of the key is
\* marked failed.
CheckoutCatch_Unguarded(r) ==
    /\ checkouts[r].pc = "catch"
    /\ ledger' = IF ledger.status = "absent" THEN ledger
                 ELSE [ledger EXCEPT !.status = "failed"]
    /\ checkouts' = [checkouts EXCEPT ![r] = Respond(@, Response(checkouts[r].err, NULL))]
    /\ UNCHANGED <<billVars, custVars, now, webVars, subVars, activePaid, catalog, restVars>>

\* The catch block: mark the row failed unless it is completed, answer 409
\* for CatalogOutOfSyncError and 500 otherwise.
CheckoutCatch(r) ==
    /\ checkouts[r].pc = "catch"
    /\ ledger' = IF ledger.status \in {"absent", "completed"} THEN ledger
                 ELSE [ledger EXCEPT !.status = "failed"]
    /\ checkouts' = [checkouts EXCEPT ![r] = Respond(@, Response(checkouts[r].err, NULL))]
    /\ UNCHANGED <<billVars, custVars, now, webVars, subVars, activePaid, catalog, restVars>>

\* The catch block when its update is rejected by the database: the result of
\* the awaited update is not read, so the handler answers as usual and the
\* row keeps its status.
CheckoutCatchFails(r) ==
    /\ checkouts[r].pc = "catch"
    /\ checkouts' = [checkouts EXCEPT ![r] = Respond(@, Response(checkouts[r].err, NULL))]
    /\ UNCHANGED <<billVars, custVars, now, webVars, subVars, ledger, activePaid, catalog, restVars>>

\* upsertWorkspaceSubscriptionState writes or ends the workspace's entitled
\* paid subscription (a webhook was applied).
SubscriptionChange ==
    /\ activePaid' = ~activePaid
    /\ UNCHANGED <<billVars, custVars, now, webVars, subVars, ledger, catalog, checkouts, restVars>>

\* The catalog gains or loses the priced variant of a body.
CatalogChange(body) ==
    /\ catalog' = [catalog EXCEPT ![body] = ~@]
    /\ UNCHANGED <<billVars, custVars, now, webVars, subVars, ledger, activePaid, checkouts, restVars>>

CheckoutAdvanceTime(d) ==
    /\ now + d <= MaxCheckoutNow
    /\ now' = now + d
    /\ UNCHANGED <<billVars, custVars, webVars, coVars, subVars, restVars>>

CheckoutStep(r) ==
    \/ CheckoutPaidCheck(r)
    \/ CheckoutResolve(r)
    \/ CheckoutGetRow(r)
    \/ CheckoutInsert(r)
    \/ CheckoutReload(r)
    \/ CheckoutTransition(r)
    \/ CheckoutPostTransition(r)
    \/ CheckoutCreate(r)
    \/ CheckoutComplete(r)
    \/ CheckoutThrow(r)
    \/ CheckoutCatch(r)

NextCheckout ==
    \/ \E r \in Requests, u \in Users, b \in Bodies : CheckoutStart(r, u, b)
    \/ \E r \in Requests : CheckoutStep(r)
    \/ SubscriptionChange
    \/ \E b \in DriftingBodies : CatalogChange(b)
    \/ \E d \in CheckoutTimeSteps : CheckoutAdvanceTime(d)

\* No checkout request yet: no ledger row, a free workspace, a synced catalog.
InitCheckout ==
    /\ ledger = NoLedgerRow
    /\ activePaid = FALSE
    /\ catalog = [b \in Bodies |-> TRUE]
    /\ checkouts = [r \in Requests |-> IdleCheckout]

\* The webhook queue at rest.
InitWebhookIdle ==
    /\ events = [e \in EventIds |-> AbsentRow]
    /\ order = <<>>
    /\ tasks = [t \in Tasks |-> IdleTask]
    /\ applied = [e \in EventIds |-> 0]
    /\ stable = FALSE
    /\ webhook = IdleWebhook

(***************************************************************************)
(* Public submission pipeline: POST /f/:formId/submit                      *)
(***************************************************************************)

FieldIds == {"f1", "f2"}
DataKeys == {"f1", "f2", "zz"}
Values == {"a", "", "x@y.z"}
IdempotencyKeys == {"ik_1"}
Undefined == "undefined"

\* Strings the e-mail pattern /^[^\s@]+@[^\s@]+\.[^\s@]+$/ accepts.
ValidEmails == {"x@y.z"}

\* The request bodies of the model: objects over DataKeys; a blank string is
\* sent for f1 only and the unknown key carries one value.
DataSet ==
    {d \in UNION {[ks -> Values] : ks \in SUBSET DataKeys} :
        /\ ("f2" \in DOMAIN d => d["f2"] # "")
        /\ ("zz" \in DOMAIN d => d["zz"] = "a")}

HideRule ==
    [mode |-> "all",
     conditions |-> <<[fieldId |-> "f1", operator |-> "eq", value |-> "a"]>>,
     actions |-> <<[type |-> "hide", targetFieldId |-> "f2"]>>]

ShowRule ==
    [mode |-> "any",
     conditions |-> <<[fieldId |-> "f1", operator |-> "exists", value |-> NULL]>>,
     actions |-> <<[type |-> "show", targetFieldId |-> "f2"]>>]

FieldRegistry ==
    [f \in FieldIds |->
        IF f = "f1"
        THEN [id |-> f, type |-> "text", required |-> TRUE, defaultVisible |-> TRUE]
        ELSE [id |-> f, type |-> "email", required |-> FALSE, defaultVisible |-> TRUE]]

\* A rule whose condition names an operator outside the alias map.
MatchRule ==
    [mode |-> "all",
     conditions |-> <<[fieldId |-> "f1", operator |-> "matches", value |-> "a"]>>,
     actions |-> <<[type |-> "hide", targetFieldId |-> "f2"]>>]

\* An entry of published_schema.logic: the rule and its enabled flag.
Logic(rule, enabled) ==
    [enabled |-> enabled, mode |-> rule.mode,
     conditions |-> rule.conditions, actions |-> rule.actions]

\* The fields of a schema whose second field has type file_upload.
UploadFields == [FieldRegistry EXCEPT !["f2"].type = "file_upload"]

SUPPORTED_FIELD_TYPES ==
    {"text", "textarea", "email", "number", "tel", "url", "date", "datetime", "time",
     "radio", "select", "multiselect", "checkbox", "boolean", "rating"}

SUPPORTED_OPERATORS ==
    {"eq", "neq", "in", "not_in", "gt", "gte", "lt", "lte",
     "contains", "not_contains", "exists", "not_exists"}

DefaultSchema == [fields |-> FieldRegistry, logic |-> <<Logic(HideRule, TRUE)>>]

\* Published schemas of the model: one hide rule; a hide rule followed by a
\* show rule on the same field; a field of an unsupported type; an active rule
\* with an unsupported operator; the same rule switched off.
Schemas ==
    {DefaultSchema,
     [fields |-> FieldRegistry, logic |-> <<Logic(HideRule, TRUE), Logic(ShowRule, TRUE)>>],
     [fields |-> UploadFields, logic |-> <<>>],
     [fields |-> FieldRegistry, logic |-> <<Logic(MatchRule, TRUE)>>],
     [fields |-> FieldRegistry, logic |-> <<Logic(HideRule, TRUE), Logic(MatchRule, FALSE)>>]}

\* Plan entitlements for max_submissions_monthly: unlimited, one, disabled.
Quotas ==
    {[is_enabled |-> TRUE, limit_value |-> 0 - 1],
     [is_enabled |-> TRUE, limit_value |-> 1],
     [is_enabled |-> FALSE, limit_value |-> 0]}

\* check_request admits this many submissions per window and IP.
RateLimitPerWindow == 2

\* normalizeOperator: the alias map on the lower-cased, trimmed operator; NULL
\* for a string that is not a key of the map.
normalizeOperator(rawOperator) ==
    CASE rawOperator \in {"=", "==", "eq"} -> "eq"
      [] rawOperator \in {"!=", "<>", "neq", "not_eq"} -> "neq"
      [] rawOperator \in {"gt", ">"} -> "gt"
      [] rawOperator \in {"gte", ">="} -> "gte"
      [] rawOperator \in {"lt", "<"} -> "lt"
      [] rawOperator \in {"lte", "<="} -> "lte"
      [] rawOperator = "in" -> "in"
      [] rawOperator \in {"nin", "not_in"} -> "not_in"
      [] rawOperator \in {"contains", "includes"} -> "contains"
      [] rawOperator \in {"not_contains", "not_includes"} -> "not_contains"
      [] rawOperator = "exists" -> "exists"
      [] rawOperator = "not_exists" -> "not_exists"
      [] OTHER -> NULL

\* The rules parsePublishedContract keeps: entries with enabled false are
\* skipped before their conditions are read.
ActiveLogic(schema) ==
    LET Enabled(rawRule) == rawRule.enabled
    IN  SelectSeq(schema.logic, Enabled)

NormalizedRules(logicEntries) ==
    [i \in 1..Len(logicEntries) |->
        [mode |-> logicEntries[i].mode,
         conditions |-> [j \in 1..Len(logicEntries[i].conditions) |->
                            [logicEntries[i].conditions[j] EXCEPT
                                !.operator = normalizeOperator(@)]],
         actions |-> logicEntries[i].actions]]

ParseFailed == [ok |-> FALSE, contract |-> [fields |-> <<>>, rules |-> <<>>]]

\* A parser that accepts every operator string.
parsePublishedContract_AnyOperator(schema) ==
    IF \E f \in DOMAIN schema.fields : schema.fields[f].type \notin SUPPORTED_FIELD_TYPES
    THEN ParseFailed
    ELSE [ok |-> TRUE,
          contract |-> [fields |-> schema.fields,
                        rules |-> NormalizedRules(ActiveLogic(schema))]]

\* parsePublishedContract: the verdict and the normalized contract, for the
\* field types and the rule operators of the schema.
parsePublishedContract(schema) ==
    LET logicEntries == ActiveLogic(schema)
        normalizedRules == NormalizedRules(logicEntries)
    IN  IF \E f \in DOMAIN schema.fields : schema.fields[f].type \notin SUPPORTED_FIELD_TYPES
        THEN ParseFailed
        ELSE IF \E i \in 1..Len(normalizedRules) :
                   \E j \in 1..Len(normalizedRules[i].conditions) :
                       normalizedRules[i].conditions[j].operator \notin SUPPORTED_OPERATORS
        THEN ParseFailed
        ELSE [ok |-> TRUE,
              contract |-> [fields |-> schema.fields, rules |-> normalizedRules]]

isPresent(value) == value # Undefined /\ value # ""

areEqual(left, right) == left = right

evaluateCondition(condition, submittedData) ==
    LET actualValue == IF condition.fieldId \in DOMAIN submittedData
                       THEN submittedData[condition.fieldId] ELSE Undefined
    IN  CASE condition.operator = "eq" -> areEqual(actualValue, condition.value)
          [] condition.operator = "neq" -> ~areEqual(actualValue, condition.value)
          [] condition.operator = "exists" -> isPresent(actualValue)
          [] condition.operator = "not_exists" -> ~isPresent(actualValue)
          [] OTHER -> FALSE

RuleMatched(rule, submittedData) ==
    IF rule.mode = "all"
    THEN \A i \in 1..Len(rule.conditions) : evaluateCondition(rule.conditions[i], submittedData)
    ELSE \E i \in 1..Len(rule.conditions) : evaluateCondition(rule.conditions[i], submittedData)

RECURSIVE ApplyActions(_, _)
ApplyActions(visibility, actions) ==
    IF actions = <<>> THEN visibility
    ELSE ApplyActions(
            [visibility EXCEPT ![Head(actions).targetFieldId] = (Head(actions).type = "show")],
            Tail(actions))

RECURSIVE ApplyRules(_, _, _)
ApplyRules(visibility, rules, submittedData) ==
    IF rules = <<>> THEN visibility
    ELSE ApplyRules(
            IF RuleMatched(Head(rules), submittedData)
            THEN ApplyActions(visibility, Head(rules).actions) ELSE visibility,
            Tail(rules), submittedData)

\* evaluateVisibility: defaults first, then every matching rule in order.
evaluateVisibility(contract, submittedData) ==
    ApplyRules([f \in DOMAIN contract.fields |-> contract.fields[f].defaultVisible],
               contract.rules, submittedData)

validateFieldValue(field, value) ==
    IF field.type = "email" /\ value \notin ValidEmails THEN "must be a valid email"
    ELSE NULL

Restrict(fn, ks) == [k \in ks |-> fn[k]]

ValidationFailed(unknownFields) ==
    [ok |-> FALSE, code |-> "FIELD_VALIDATION_FAILED",
     unknown_fields |-> unknownFields, sanitizedData |-> <<>>]

\* Field errors of the visible fields: required and missing, or invalid.
FieldErrors(contract, visibility, sanitizedData) ==
    {f \in DOMAIN contract.fields :
        /\ visibility[f]
        /\ LET submittedValue == IF f \in DOMAIN sanitizedData
                                 THEN sanitizedData[f] ELSE Undefined
           IN  IF ~isPresent(submittedValue) THEN contract.fields[f].required
               ELSE validateFieldValue(contract.fields[f], submittedValue) # NULL}

\* A sanitizer that keeps the keys of hidden fields.
sanitizeAndValidateData_KeepHidden(contract, inputData) ==
    LET visibility == evaluateVisibility(contract, inputData)
        unknownFields == DOMAIN inputData \ DOMAIN contract.fields
        sanitizedData == Restrict(inputData, DOMAIN inputData \cap DOMAIN contract.fields)
    IN  IF unknownFields # {} THEN ValidationFailed(unknownFields)
        ELSE IF FieldErrors(contract, visibility, sanitizedData) # {}
             THEN ValidationFailed({})
        ELSE [ok |-> TRUE, code |-> NULL, unknown_fields |-> {},
              sanitizedData |-> sanitizedData]

\* A sanitizer that drops unknown keys instead of rejecting the request.
sanitizeAndValidateData_DropUnknown(contract, inputData) ==
    LET visibility == evaluateVisibility(contract, inputData)
        sanitizedData ==
            Restrict(inputData, {f \in DOMAIN inputData \cap DOMAIN contract.fields :
                                    visibility[f]})
    IN  IF FieldErrors(contract, visibility, sanitizedData) # {}
        THEN ValidationFailed({})
        ELSE [ok |-> TRUE, code |-> NULL, unknown_fields |-> {},
              sanitizedData |-> sanitizedData]

\* sanitizeAndValidateData: unknown keys reject the request; keys of hidden
\* fields are dropped; visible fields are checked.
sanitizeAndValidateData(contract, inputData) ==
    LET visibility == evaluateVisibility(contract, inputData)
        unknownFields == DOMAIN inputData \ DOMAIN contract.fields
        sanitizedData ==
            Restrict(inputData, {f \in DOMAIN inputData \cap DOMAIN contract.fields :
                                    visibility[f]})
    IN  IF unknownFields # {} THEN ValidationFailed(unknownFields)
        ELSE IF FieldErrors(contract, visibility, sanitizedData) # {}
             THEN ValidationFailed({})
        ELSE [ok |-> TRUE, code |-> NULL, unknown_fields |-> {},
              sanitizedData |-> sanitizedData]

\* SQL function check_request: raises the 429 error when the window is full,
\* counts the submission otherwise.
check_request(count) ==
    IF count >= RateLimitPerWindow
    THEN [limited |-> TRUE, count |-> count]
    ELSE [limited |-> FALSE, count |-> count + 1]

\* SQL function get_form_submission_quota: the plan's entitlement and the
\* number of submissions counted so far.
get_form_submission_quota(cfg, rows) ==
    [is_enabled |-> cfg.is_enabled, limit_value |-> cfg.limit_value,
     current_usage |-> Len(rows)]

RowsWithKey(rows, key) == {i \in 1..Len(rows) : rows[i].idempotency_key = key}

\* SQL function submit_form: insert ... on conflict (idempotency key) do
\* nothing, and return the id of the row that holds the key.
submit_form(rows, args) ==
    LET held == RowsWithKey(rows, args.p_idempotency_key)
    IN  IF args.p_idempotency_key # NULL /\ held # {}
        THEN [rows |-> rows, id |-> rows[CHOOSE i \in held : TRUE].id]
        ELSE [rows |-> Append(rows, [id |-> Len(rows) + 1,
                                     idempotency_key |-> args.p_idempotency_key,
                                     data |-> args.p_data, raw |-> args.raw]),
              id |-> Len(rows) + 1]

\* A call that does not pass the Idempotency-Key on.
submitFormArgs_NoKey(formData, idempotencyKey, inputData) ==
    [p_data |-> formData, p_idempotency_key |-> NULL, raw |-> inputData]

\* The arguments of the submit_form call; `raw` is history (the body sent).
submitFormArgs(formData, idempotencyKey, inputData) ==
    [p_data |-> formData, p_idempotency_key |-> idempotencyKey, raw |-> inputData]

NoSubmitResponse == [status |-> 0, code |-> NULL, submission_id |-> 0, unknown_fields |-> {}]

SubmitResponse(status, code) ==
    [status |-> status, code |-> code, submission_id |-> 0, unknown_fields |-> {}]

NoContract == [fields |-> <<>>, rules |-> <<>>]

\* The request slot. `parsed`, `contract`, `called`, `handed` and `repeat` are
\* history: the contract the request parsed, the data it handed to
\* submit_form, and whether it started as a repeat of a persisted (key, data).
IdleSubmit ==
    [pc |-> "idle", key |-> NULL, data |-> <<>>,
     parsed |-> FALSE, contract |-> NoContract,
     sanitized |-> <<>>, called |-> FALSE, handed |-> <<>>, repeat |-> FALSE,
     response |-> NoSubmitResponse]

Answer(req, resp) == [req EXCEPT !.pc = "done", !.sanitized = <<>>, !.response = resp]

\* A request arrives with a valid Idempotency-Key header and a JSON body.
SubmitStart(key, data) ==
    /\ submit.pc \in {"idle", "done"}
    /\ submit' = [IdleSubmit EXCEPT
                    !.pc = "rate_limit", !.key = key, !.data = data,
                    !.repeat = \E i \in RowsWithKey(submissions, key) :
                                   submissions[i].raw = data]
    /\ UNCHANGED <<billVars, custVars, now, webVars, coVars, submissions, form, quotaCfg, rateCount, restVars>>

\* Errors of the check_request call other than the window being full: one
\* whose message mentions RATE_LIMITED, and one that carries no such signal
\* (connection failure, lock timeout).
RateLimitFailures == {"message_rate_limited", "other"}

\* parseRateLimitError: the 429 response an error maps to, or NoSubmitResponse
\* (null) when the error carries no rate-limit signal.
parseRateLimitError(error) ==
    IF error \in {"details_429", "message_rate_limited"}
    THEN SubmitResponse(429, "RATE_LIMITED")
    ELSE NoSubmitResponse

\* check_request fails: the mapped 429, or 500 { error } without a code.
SubmitRateLimitError(error) ==
    /\ submit.pc = "rate_limit"
    /\ LET mappedRateLimit == parseRateLimitError(error)
       IN  submit' = IF mappedRateLimit # NoSubmitResponse
                     THEN Answer(submit, mappedRateLimit)
                     ELSE Answer(submit, SubmitResponse(500, NULL))
    /\ UNCHANGED <<billVars, custVars, now, webVars, coVars, submissions, form, quotaCfg, rateCount, restVars>>

\* A handler that goes from the rate-limit check straight to the quota check.
SubmitRateLimit_NoLoad ==
    /\ submit.pc = "rate_limit"
    /\ LET verdict == check_request(rateCount)
       IN  /\ rateCount' = verdict.count
           /\ submit' = IF verdict.limited
                         THEN Answer(submit, SubmitResponse(429, "RATE_LIMITED"))
                         ELSE [submit EXCEPT !.pc = "quota"]
    /\ UNCHANGED <<billVars, custVars, now, webVars, coVars, submissions, form, quotaCfg, restVars>>

\* check_request: 429 when the window is full.
SubmitRateLimit ==
    /\ submit.pc = "rate_limit"
    /\ LET verdict == check_request(rateCount)
       IN  /\ rateCount' = verdict.count
           /\ submit' = IF verdict.limited
                         THEN Answer(submit, SubmitResponse(429, "RATE_LIMITED"))
                         ELSE [submit EXCEPT !.pc = "load_form"]
    /\ UNCHANGED <<billVars, custVars, now, webVars, coVars, submissions, form, quotaCfg, restVars>>

\* get_published_form_by_id, parsePublishedContract, sanitizeAndValidateData.
SubmitLoadForm ==
    /\ submit.pc = "load_form"
    /\ IF ~form.published
       THEN submit' = Answer(submit, SubmitResponse(404, NULL))
       ELSE LET contractResult == parsePublishedContract(form.schema)
            IN  IF ~contractResult.ok
                THEN submit' = Answer(submit, SubmitResponse(422, "UNSUPPORTED_FORM_SCHEMA"))
                ELSE LET payloadResult ==
                             sanitizeAndValidateData(contractResult.contract, submit.data)
                     IN  IF ~payloadResult.ok
                         THEN submit' = Answer(
                                  [submit EXCEPT !.parsed = TRUE,
                                                 !.contract = contractResult.contract],
                                  [SubmitResponse(422, payloadResult.code) EXCEPT
                                      !.unknown_fields = payloadResult.unknown_fields])
                         ELSE submit' = [submit EXCEPT
                                            !.pc = "quota", !.parsed = TRUE,
                                            !.contract = contractResult.contract,
                                            !.sanitized = payloadResult.sanitizedData]
    /\ UNCHANGED <<billVars, custVars, now, webVars, coVars, submissions, form, quotaCfg, rateCount, restVars>>

\* get_form_submission_quota and the two plan gates.
SubmitQuota ==
    /\ submit.pc = "quota"
    /\ LET quota == get_form_submission_quota(quotaCfg, submissions)
       IN  submit' =
              IF ~quota.is_enabled
              THEN Answer(submit, SubmitResponse(403, "PLAN_FEATURE_DISABLED"))
              ELSE IF quota.limit_value >= 0 /\ quota.current_usage >= quota.limit_value
              THEN Answer(submit, SubmitResponse(403, "PLAN_LIMIT_EXCEEDED"))
              ELSE [submit EXCEPT !.pc = "submit_form"]
    /\ UNCHANGED <<billVars, custVars, now, webVars, coVars, submissions, form, quotaCfg, rateCount, restVars>>

\* submit_form and the 201 response carrying the id it returned.
SubmitPersist ==
    /\ submit.pc = "submit_form"
    /\ LET result == submit_form(submissions,
                                 submitFormArgs(submit.sanitized, submit.key, submit.data))
       IN  /\ submissions' = result.rows
           /\ submit' = Answer([submit EXCEPT !.called = TRUE, !.handed = submit.sanitized],
                               [SubmitResponse(201, NULL) EXCEPT
                                   !.submission_id = result.id])
    /\ UNCHANGED <<billVars, custVars, now, webVars, coVars, form, quotaCfg, rateCount, restVars>>

\* The form is published with another schema.
PublishForm(schema) ==
    /\ form' = [published |-> TRUE, schema |-> schema]
    /\ form' # form
    /\ UNCHANGED <<billVars, custVars, now, webVars, coVars, submissions, quotaCfg, rateCount, submit, restVars>>

\* The form is unpublished.
UnpublishForm ==
    /\ form.published
    /\ form' = [form EXCEPT !.published = FALSE]
    /\ UNCHANGED <<billVars, custVars, now, webVars, coVars, submissions, quotaCfg, rateCount, submit, restVars>>

\* The workspace's plan entitlement changes.
PlanChange(q) ==
    /\ quotaCfg' = q
    /\ quotaCfg' # quotaCfg
    /\ UNCHANGED <<billVars, custVars, now, webVars, coVars, submissions, form, rateCount, submit, restVars>>

\* The rate-limit window of the client's address rolls over.
RateWindowPasses ==
    /\ rateCount > 0
    /\ rateCount' = 0
    /\ UNCHANGED <<billVars, custVars, now, webVars, coVars, submissions, form, quotaCfg, submit, restVars>>

NextSubmit ==
    \/ \E k \in IdempotencyKeys, d \in DataSet : SubmitStart(k, d)
    \/ SubmitRateLimit
    \/ \E error \in RateLimitFailures : SubmitRateLimitError(error)
    \/ SubmitLoadForm
    \/ SubmitQuota
    \/ SubmitPersist
    \/ \E s \in Schemas : PublishForm(s)
    \/ UnpublishForm
    \/ \E q \in Quotas : PlanChange(q)
    \/ RateWindowPasses

\* The runtime runs the other in-flight submit request: the running request
\* waits at its await and the waiting one goes on from its own.
SwitchSubmit ==
    /\ submit # parked
    /\ submit' = parked
    /\ parked' = submit
    /\ UNCHANGED <<billVars, custVars, now, webVars, coVars, submissions, form, quotaCfg,
                   rateCount, syncVars, parkedCall, buildVars>>

RaceKeys == {"ik_1", "ik_2"}
RaceData == {d \in DataSet : DOMAIN d = {"f1"}}

\* Two requests with their own idempotency keys against one form.
NextSubmitRace ==
    \/ \E k \in RaceKeys, d \in RaceData : SubmitStart(k, d)
    \/ SubmitRateLimit
    \/ SubmitLoadForm
    \/ SubmitQuota
    \/ SubmitPersist
    \/ RateWindowPasses
    \/ SwitchSubmit

\* Request bodies that carry f1 alone or f1 and f2, a blank string included
\* for either field.
BlankData == UNION {[ks -> Values] : ks \in {{"f1"}, {"f1", "f2"}}}

\* One request at a time against the default schema, blank values included.
NextSubmitBlank ==
    \/ \E k \in IdempotencyKeys, d \in BlankData : SubmitStart(k, d)
    \/ SubmitRateLimit
    \/ SubmitLoadForm
    \/ SubmitQuota
    \/ SubmitPersist
    \/ RateWindowPasses

\* The submission pipeline at rest.
InitSubmitIdle ==
    /\ submissions = <<>>
    /\ form = [published |-> TRUE,
               schema |-> DefaultSchema]
    /\ quotaCfg = [is_enabled |-> TRUE, limit_value |-> 0 - 1]
    /\ rateCount = 0
    /\ submit = IdleSubmit

\* A published form, an unlimited plan, no submissions yet.
InitSubmit ==
    /\ submissions = <<>>
    /\ form \in {[published |-> TRUE, schema |-> s] : s \in Schemas}
    /\ quotaCfg = [is_enabled |-> TRUE, limit_value |-> 0 - 1]
    /\ rateCount = 0
    /\ submit = IdleSubmit

(***************************************************************************)
(* Subscription state: processStripeEvent applied to the subscriptions     *)
(* table and the workspaces.plan cache, and the hourly grace-expiry pass.  *)
(* One workspace; every await of the handlers is a step of its own, so     *)
(* that the cron pass and an event application interleave as they do       *)
(* between database calls.  Time is Date.now() in milliseconds.            *)
(***************************************************************************)
DAY_MS == 86400000
MaxBillingNow == 604800000
BillingTimeSteps == {604800000}
DEFAULT_GRACE_DAYS == 7
DEFAULT_GRACE_BATCH_SIZE == 500
FREE_PLAN_SLUG == "free"
ENTITLED_SUBSCRIPTION_STATUSES == {"active", "trialing", "past_due"}
MANAGEABLE_SUBSCRIPTION_STATUSES == {"active", "trialing", "past_due", "unpaid", "paused"}
NON_ENTITLED_TERMINAL_STATUSES == {"canceled", "unpaid", "paused"}

Workers == {"w1"}
CronJob == "cron"
Processes == Workers \cup {CronJob}
StripeSubscriptions == {"sub_1"}
\* Stripe.Subscription.Status values the upstream reports in the model.
StripeStatuses == {"active", "past_due", "unpaid", "canceled", "incomplete"}
SyncEventTypes == {"customer.subscription.updated"}
InvoiceEventTypes == {"invoice.payment_failed", "invoice.paid"}

\* The price of the subscription's first item resolves to a plan of the catalog.
PlanOf(s) == IF s = "sub_1" THEN "pro" ELSE "business"
CustomerOf(s) == IF s = "sub_1" THEN "cus_1" ELSE "cus_2"
StripeCustomers == {CustomerOf(s) : s \in StripeSubscriptions}

parseGraceDays == DEFAULT_GRACE_DAYS
parseGraceBatchSize == DEFAULT_GRACE_BATCH_SIZE

mapStripeSubscriptionStatus(status) ==
    CASE status = "trialing" -> "trialing"
      [] status = "active" -> "active"
      [] status = "past_due" -> "past_due"
      [] status = "unpaid" -> "unpaid"
      [] status = "paused" -> "paused"
      [] status = "incomplete" -> "past_due"
      [] status \in {"incomplete_expired", "canceled"} -> "canceled"
      [] OTHER -> "past_due"

shouldEnsureFreeSubscription(status) == status \in NON_ENTITLED_TERMINAL_STATUSES

\* A subscriptions row; its position in the table is its id and its created_at rank.
FreeRow ==
    [stripe_subscription_id |-> NULL, stripe_customer_id |-> NULL,
     status |-> "active", plan |-> FREE_PLAN_SLUG, grace_period_end |-> NoTime,
     stripe_status |-> NULL]

RowIds(rows) == 1..Len(rows)
EntitledIds(rows) == {i \in RowIds(rows) : rows[i].status \in ENTITLED_SUBSCRIPTION_STATUSES}
SetMax(S) == CHOOSE x \in S : \A y \in S : y <= x
\* .in('status', entitled).order('created_at', desc).limit(1); 0 when no row matches
LatestEntitledId(rows) == IF EntitledIds(rows) = {} THEN 0 ELSE SetMax(EntitledIds(rows))

fetchExistingSubscriptionByStripeId(rows, s) ==
    IF \E i \in RowIds(rows) : rows[i].stripe_subscription_id = s
    THEN CHOOSE i \in RowIds(rows) : rows[i].stripe_subscription_id = s
    ELSE 0

\* The columns upsertWorkspaceSubscriptionState writes; grace_period_end is not
\* among them, metadata.stripe_status is.
Payload(s, upstreamStatus) ==
    [stripe_subscription_id |-> s, stripe_customer_id |-> CustomerOf(s),
     status |-> mapStripeSubscriptionStatus(upstreamStatus), plan |-> PlanOf(s),
     stripe_status |-> upstreamStatus]

UpdateRow(rows, id, payload) ==
    [rows EXCEPT ![id] = [@ EXCEPT !.stripe_subscription_id = payload.stripe_subscription_id,
                                   !.stripe_customer_id = payload.stripe_customer_id,
                                   !.status = payload.status,
                                   !.plan = payload.plan,
                                   !.stripe_status = payload.stripe_status]]

InsertRow(rows, payload) ==
    Append(rows, [stripe_subscription_id |-> payload.stripe_subscription_id,
                  stripe_customer_id |-> payload.stripe_customer_id,
                  status |-> payload.status, plan |-> payload.plan,
                  grace_period_end |-> NoTime,
                  stripe_status |-> payload.stripe_status])

\* RPC ensure_free_subscription_for_workspace: under the workspace's advisory
\* lock, INSERT ... ON CONFLICT DO NOTHING of a free row; the insert conflicts
\* with an entitled row of the workspace.
ensure_free_subscription_for_workspace(rows) ==
    IF EntitledIds(rows) = {} THEN Append(rows, FreeRow) ELSE rows

\* refreshWorkspacePlanCache, the select: nextPlanSlug ?? FREE_PLAN_SLUG
EntitledPlanSlug(rows) ==
    IF LatestEntitledId(rows) = 0 THEN FREE_PLAN_SLUG ELSE rows[LatestEntitledId(rows)].plan

\* enforceGracePeriodDowngrades, the select
GraceExpiredIds(rows, t) ==
    {i \in RowIds(rows) : /\ rows[i].status = "past_due"
                          /\ rows[i].grace_period_end # NoTime
                          /\ rows[i].grace_period_end <= t}

RECURSIVE SetToSeq(_)
SetToSeq(S) ==
    IF S = {} THEN <<>>
    ELSE LET x == CHOOSE y \in S : \A z \in S : y <= z
         IN <<x>> \o SetToSeq(S \ {x})

IdleJob ==
    [pc |-> "idle", type |-> "none", sub |-> NULL, customer |-> NULL,
     upstream |-> NULL, existing |-> 0, target |-> 0, rows |-> <<>>,
     slug |-> NULL, graceSet |-> FALSE]

\* After the subscription write: ensure free for the terminal statuses, then refresh.
AfterUpsert(job) ==
    [job EXCEPT !.pc = IF shouldEnsureFreeSubscription(mapStripeSubscriptionStatus(job.upstream))
                       THEN "ensure_free" ELSE "refresh_read"]

\* The customers the upstream hands out, in the order it creates them; the
\* first is the workspace's customer when the model starts.
CustomerIds == <<"cus_1", "cus_2", "cus_3", "cus_4", "cus_5">>
MaxCustomers == 3
MaxAuditRows == 5

IdleCall ==
    [pc |-> "idle", operation |-> "none", preferred |-> NULL, read |-> NULL,
     customer |-> NULL, made |-> NULL, retried |-> FALSE, response |-> 0,
     base |-> 0, issuedBase |-> 0, stale |-> FALSE, deleted |-> FALSE,
     disturbed |-> FALSE, executes |-> 0, outage |-> FALSE]

\* A customer is deleted upstream (Dashboard or API); the upstream then emits
\* customer.deleted.
DeleteCustomerUpstream(c) ==
    /\ c \in liveCustomers
    /\ liveCustomers' = liveCustomers \ {c}
    /\ call' = IF call.pc # "idle" THEN [call EXCEPT !.disturbed = TRUE] ELSE call
    /\ UNCHANGED <<now, webVars, coVars, subVars, billVars, mapping, issued, audit, restVars>>

\* processStripeEvent is entered with an event of the queue.  The subscription
\* of a customer.subscription.* event is the event's own snapshot; for the
\* other types it is what stripe.subscriptions.retrieve returns at that moment.
EventStart(p, type, s, upstreamStatus) ==
    /\ p \in Workers
    /\ jobs[p].pc = "idle"
    /\ type \in SyncEventTypes \cup InvoiceEventTypes
    /\ jobs' = [jobs EXCEPT ![p] =
                   [IdleJob EXCEPT !.pc = "fetch_existing", !.type = type, !.sub = s,
                                   !.customer = CustomerOf(s), !.upstream = upstreamStatus]]
    /\ UNCHANGED <<now, webVars, coVars, subVars, custVars, subscriptions, workspacePlan, restVars>>

CustomerDeletedStart(p, c) ==
    /\ p \in Workers
    /\ jobs[p].pc = "idle"
    /\ \E k \in 1..issued : c = CustomerIds[k]
    /\ c \notin liveCustomers
    /\ Len(audit) < MaxAuditRows
    /\ jobs' = [jobs EXCEPT ![p] =
                   [IdleJob EXCEPT !.pc = "deleted_resolve", !.type = "customer.deleted",
                                   !.customer = c]]
    /\ UNCHANGED <<now, webVars, coVars, subVars, custVars, subscriptions, workspacePlan, restVars>>

SyncFetchExisting(p) ==
    /\ jobs[p].pc = "fetch_existing"
    /\ jobs' = [jobs EXCEPT ![p] =
                   [@ EXCEPT !.pc = "upsert",
                             !.existing = fetchExistingSubscriptionByStripeId(subscriptions, jobs[p].sub)]]
    /\ UNCHANGED <<now, webVars, coVars, subVars, custVars, subscriptions, workspacePlan, restVars>>

\* upsertWorkspaceSubscriptionState after the lookup: update by the matched id,
\* or select the latest entitled row, or insert.
SyncUpsert(p) ==
    /\ jobs[p].pc = "upsert"
    /\ LET job == jobs[p]
           payload == Payload(job.sub, job.upstream)
       IN IF job.existing # 0
          THEN /\ subscriptions' = UpdateRow(subscriptions, job.existing, payload)
               /\ jobs' = [jobs EXCEPT ![p] = AfterUpsert(job)]
          ELSE IF payload.status \in ENTITLED_SUBSCRIPTION_STATUSES
          THEN /\ jobs' = [jobs EXCEPT ![p] =
                              [job EXCEPT !.pc = "write_entitled",
                                          !.target = LatestEntitledId(subscriptions)]]
               /\ UNCHANGED subscriptions
          ELSE /\ subscriptions' = InsertRow(subscriptions, payload)
               /\ jobs' = [jobs EXCEPT ![p] = AfterUpsert(job)]
    /\ UNCHANGED <<now, webVars, coVars, subVars, custVars, workspacePlan, restVars>>

SyncWriteEntitled(p) ==
    /\ jobs[p].pc = "write_entitled"
    /\ LET job == jobs[p]
           payload == Payload(job.sub, job.upstream)
       IN /\ subscriptions' = IF job.target # 0
                              THEN UpdateRow(subscriptions, job.target, payload)
                              ELSE InsertRow(subscriptions, payload)
          /\ jobs' = [jobs EXCEPT ![p] = AfterUpsert(job)]
    /\ UNCHANGED <<now, webVars, coVars, subVars, custVars, workspacePlan, restVars>>

EnsureFree(p) ==
    /\ jobs[p].pc = "ensure_free"
    /\ subscriptions' = ensure_free_subscription_for_workspace(subscriptions)
    /\ jobs' = [jobs EXCEPT ![p] = [@ EXCEPT !.pc = "refresh_read"]]
    /\ UNCHANGED <<now, webVars, coVars, subVars, custVars, workspacePlan, restVars>>

RefreshRead(p) ==
    /\ jobs[p].pc = "refresh_read"
    /\ jobs' = [jobs EXCEPT ![p] =
                   [@ EXCEPT !.pc = "refresh_write", !.slug = EntitledPlanSlug(subscriptions)]]
    /\ UNCHANGED <<now, webVars, coVars, subVars, custVars, subscriptions, workspacePlan, restVars>>

\* The cache write ends syncSubscriptionFromStripe; an invoice event goes on to
\* the grace write, the grace pass to its next row, everything else returns.
RefreshWrite(p) ==
    /\ jobs[p].pc = "refresh_write"
    /\ workspacePlan' = jobs[p].slug
    /\ jobs' = [jobs EXCEPT ![p] =
                   IF @.type \in InvoiceEventTypes /\ ~@.graceSet
                   THEN [@ EXCEPT !.pc = "set_grace"]
                   ELSE IF @.type = "grace" /\ @.rows # <<>>
                   THEN [@ EXCEPT !.pc = "grace_cancel"]
                   ELSE IdleJob]
    /\ UNCHANGED <<now, webVars, coVars, subVars, custVars, subscriptions, restVars>>

\* setGracePeriodForSubscription: the update by stripe_subscription_id, and the
\* cache refresh when it matched a row.
SetGrace(p) ==
    /\ jobs[p].pc = "set_grace"
    /\ LET job == jobs[p]
           gracePeriodEnd == IF job.type = "invoice.payment_failed"
                             THEN now + parseGraceDays * DAY_MS
                             ELSE NoTime
           matched == {i \in RowIds(subscriptions) :
                          subscriptions[i].stripe_subscription_id = job.sub}
       IN /\ subscriptions' = [i \in RowIds(subscriptions) |->
                                  IF i \in matched
                                  THEN [subscriptions[i] EXCEPT !.grace_period_end = gracePeriodEnd]
                                  ELSE subscriptions[i]]
          /\ jobs' = [jobs EXCEPT ![p] =
                         IF matched # {}
                         THEN [job EXCEPT !.pc = "refresh_read", !.graceSet = TRUE]
                         ELSE IdleJob]
    /\ UNCHANGED <<now, webVars, coVars, subVars, custVars, workspacePlan, restVars>>

\* handleDeletedStripeCustomer: the mapping rows of the customer are deleted;
\* the workspace is affected when its mapping was one of them or a
\* subscription row carries the customer; webhook_deleted is recorded for it.
\* cancelWorkspaceSubscriptionsForDeletedCustomer then selects the manageable
\* rows of the customer.
DeletedResolve(p) ==
    /\ jobs[p].pc = "deleted_resolve"
    /\ LET c == jobs[p].customer
           affected == \/ mapping = c
                       \/ \E i \in RowIds(subscriptions) :
                             subscriptions[i].stripe_customer_id = c
       IN /\ mapping' = IF mapping = c THEN NULL ELSE mapping
          /\ audit' = IF affected THEN Append(audit, "webhook_deleted") ELSE audit
          /\ jobs' = [jobs EXCEPT ![p] =
                         IF affected THEN [@ EXCEPT !.pc = "deleted_select"] ELSE IdleJob]
    /\ UNCHANGED <<now, webVars, coVars, subVars, subscriptions, workspacePlan,
                   liveCustomers, issued, call, restVars>>

DeletedSelect(p) ==
    /\ jobs[p].pc = "deleted_select"
    /\ jobs' = [jobs EXCEPT ![p] =
                   [@ EXCEPT !.rows = SetToSeq({i \in RowIds(subscriptions) :
                                  /\ subscriptions[i].stripe_customer_id = jobs[p].customer
                                  /\ subscriptions[i].status \in MANAGEABLE_SUBSCRIPTION_STATUSES}),
                             !.pc = "deleted_cancel"]]
    /\ UNCHANGED <<now, webVars, coVars, subVars, custVars, subscriptions, workspacePlan, restVars>>

DeletedCancel(p) ==
    /\ jobs[p].pc = "deleted_cancel"
    /\ IF jobs[p].rows = <<>>
       THEN /\ jobs' = [jobs EXCEPT ![p] = [@ EXCEPT !.pc = "ensure_free"]]
            /\ UNCHANGED subscriptions
       ELSE /\ subscriptions' = [subscriptions EXCEPT ![Head(jobs[p].rows)].status = "canceled"]
            /\ jobs' = [jobs EXCEPT ![p] = [@ EXCEPT !.rows = Tail(@)]]
    /\ UNCHANGED <<now, webVars, coVars, subVars, custVars, workspacePlan, restVars>>

\* enforceGracePeriodDowngrades: the select of the expired past_due rows ...
GraceSelect(p) ==
    /\ p = CronJob
    /\ jobs[p].pc = "idle"
    /\ LET rows == Limit(SetToSeq(GraceExpiredIds(subscriptions, now)), parseGraceBatchSize)
       IN jobs' = [jobs EXCEPT ![p] =
                      IF rows = <<>> THEN IdleJob
                      ELSE [IdleJob EXCEPT !.pc = "grace_cancel", !.type = "grace", !.rows = rows]]
    /\ UNCHANGED <<now, webVars, coVars, subVars, custVars, subscriptions, workspacePlan, restVars>>

\* ... and, row by row, the update by id, then ensure free and refresh.
GraceCancel(p) ==
    /\ jobs[p].pc = "grace_cancel"
    /\ subscriptions' = [subscriptions EXCEPT ![Head(jobs[p].rows)].status = "canceled"]
    /\ jobs' = [jobs EXCEPT ![p] = [@ EXCEPT !.pc = "ensure_free", !.rows = Tail(@)]]
    /\ UNCHANGED <<now, webVars, coVars, subVars, custVars, workspacePlan, restVars>>

BillingAdvanceTime(d) ==
    /\ now + d <= MaxBillingNow
    /\ now' = now + d
    /\ UNCHANGED <<webVars, coVars, subVars, billVars, custVars, restVars>>

JobStep(p) ==
    \/ SyncFetchExisting(p)
    \/ SyncUpsert(p)
    \/ SyncWriteEntitled(p)
    \/ EnsureFree(p)
    \/ RefreshRead(p)
    \/ RefreshWrite(p)
    \/ SetGrace(p)
    \/ DeletedResolve(p)
    \/ DeletedSelect(p)
    \/ DeletedCancel(p)
    \/ GraceCancel(p)

NextBilling ==
    \/ \E p \in Workers, type \in SyncEventTypes \cup InvoiceEventTypes,
          s \in StripeSubscriptions, st \in StripeStatuses : EventStart(p, type, s, st)
    \/ \E p \in Workers, c \in StripeCustomers : CustomerDeletedStart(p, c)
    \/ \E c \in StripeCustomers : DeleteCustomerUpstream(c)
    \/ GraceSelect(CronJob)
    \/ \E p \in Processes : JobStep(p)
    \/ \E d \in BillingTimeSteps : BillingAdvanceTime(d)

(***************************************************************************)
(* Customer mapping recovery: withRecoveredWorkspaceStripeCustomer as the  *)
(* portal-session handler and the checkout-session handler call it.  One   *)
(* call is in flight at a time; every stripe.customers.create carries an   *)
(* idempotency key of its own request and returns a new customer.          *)
(***************************************************************************)
AllCustomers == {CustomerIds[i] : i \in 1..Len(CustomerIds)}

\* findEntitledPaidSubscription(...)?.stripe_customer_id, the checkout handler's
\* preferredCustomerId; the portal handler passes none.
PreferredCustomerId(operation) ==
    LET paid == {i \in EntitledIds(subscriptions) : subscriptions[i].plan # FREE_PLAN_SLUG}
    IN IF operation = "checkout-session" /\ paid # {}
       THEN subscriptions[SetMax(paid)].stripe_customer_id
       ELSE NULL

\* invalidateWorkspaceStripeCustomerMapping: the delete by (workspace, customer),
\* and the audit row when it removed the mapping.
InvalidatedMapping(c) == IF mapping = c THEN NULL ELSE mapping
InvalidatedAudit_NoRow(c) == audit
InvalidatedAudit(c) == IF mapping = c THEN Append(audit, "invalidated") ELSE audit

CallStart(operation) ==
    /\ call.pc = "idle"
    /\ issued + 2 <= MaxCustomers
    /\ Len(audit) + 4 <= MaxAuditRows
    /\ call' = [IdleCall EXCEPT
                   !.pc = IF PreferredCustomerId(operation) # NULL
                          THEN "preferred" ELSE "resolve_read",
                   !.operation = operation,
                   !.preferred = PreferredCustomerId(operation),
                   !.base = Len(audit),
                   !.issuedBase = issued,
                   !.stale = mapping # NULL /\ mapping \notin liveCustomers,
                   !.deleted = CustomerIds[issued] \notin liveCustomers]
    /\ UNCHANGED <<now, webVars, coVars, subVars, billVars, mapping, liveCustomers,
                   issued, audit, restVars>>

\* The preferred customer is retrieved: a live one is persisted as the mapping
\* and recorded validated, a deleted or missing one is invalidated.
CallPreferred ==
    /\ call.pc = "preferred"
    /\ IF call.preferred \in liveCustomers
       THEN /\ mapping' = call.preferred
            /\ audit' = Append(audit, "validated")
            /\ call' = [call EXCEPT !.pc = "execute", !.customer = call.preferred]
       ELSE /\ mapping' = InvalidatedMapping(call.preferred)
            /\ audit' = InvalidatedAudit(call.preferred)
            /\ call' = [call EXCEPT !.pc = "resolve_read"]
    /\ UNCHANGED <<now, webVars, coVars, subVars, billVars, liveCustomers, issued, restVars>>

\* resolveOrCreateWorkspaceStripeCustomerId: getWorkspaceBillingCustomerMapping
CallResolveRead ==
    /\ call.pc = "resolve_read"
    /\ call' = [call EXCEPT !.read = mapping,
                            !.pc = IF mapping # NULL THEN "resolve_retrieve" ELSE "create"]
    /\ UNCHANGED <<now, webVars, coVars, subVars, billVars, mapping, liveCustomers,
                   issued, audit, restVars>>

\* ... stripe.customers.retrieve of the mapped customer: validated, or the
\* mapping is invalidated
CallResolveRetrieve ==
    /\ call.pc = "resolve_retrieve"
    /\ IF call.read \in liveCustomers
       THEN /\ audit' = Append(audit, "validated")
            /\ call' = [call EXCEPT !.pc = "execute", !.customer = call.read]
            /\ UNCHANGED mapping
       ELSE /\ mapping' = InvalidatedMapping(call.read)
            /\ audit' = InvalidatedAudit(call.read)
            /\ call' = [call EXCEPT !.pc = "create"]
    /\ UNCHANGED <<now, webVars, coVars, subVars, billVars, liveCustomers, issued, restVars>>

\* ... createWorkspaceStripeCustomerMapping (the customer is created, the
\* mapping inserted or the race winner's row read, the customer id copied
\* into the subscription rows that have none) and the recreated audit row
CallCreate ==
    /\ call.pc = "create"
    /\ LET created == CustomerIds[issued + 1]
           customerId == IF mapping = NULL THEN created ELSE mapping
       IN /\ issued' = issued + 1
          /\ liveCustomers' = liveCustomers \cup {created}
          /\ mapping' = customerId
          /\ subscriptions' = [i \in RowIds(subscriptions) |->
                                  IF subscriptions[i].stripe_customer_id = NULL
                                  THEN [subscriptions[i] EXCEPT !.stripe_customer_id = customerId]
                                  ELSE subscriptions[i]]
          /\ audit' = Append(audit, "recreated")
          /\ call' = [call EXCEPT !.pc = "execute", !.customer = customerId,
                                  !.made = created]
    /\ UNCHANGED <<now, webVars, coVars, subVars, workspacePlan, jobs, restVars>>

\* createWorkspaceStripeCustomerMapping await by await, for calls that run
\* next to each other: stripe.customers.create ...
CallCreateCustomer ==
    /\ call.pc = "create"
    /\ issued < MaxCustomers
    /\ LET created == CustomerIds[issued + 1]
       IN /\ issued' = issued + 1
          /\ liveCustomers' = liveCustomers \cup {created}
          /\ call' = [call EXCEPT !.pc = "insert_mapping", !.made = created]
    /\ UNCHANGED <<now, webVars, coVars, subVars, billVars, mapping, audit, restVars>>

\* ... the insert of the mapping row; 23505 when the workspace has one
CallInsertMapping ==
    /\ call.pc = "insert_mapping"
    /\ IF mapping = NULL
       THEN /\ mapping' = call.made
            /\ call' = [call EXCEPT !.pc = "sync_customer", !.customer = call.made]
       ELSE /\ call' = [call EXCEPT !.pc = "race_winner"]
            /\ UNCHANGED mapping
    /\ UNCHANGED <<now, webVars, coVars, subVars, billVars, liveCustomers, issued, audit, restVars>>

\* A loser of the insert that goes on with the customer it created itself.
CallRaceWinner_KeepOwn ==
    /\ call.pc = "race_winner"
    /\ call' = [call EXCEPT !.pc = "sync_customer", !.customer = call.made]
    /\ UNCHANGED <<now, webVars, coVars, subVars, billVars, mapping, liveCustomers,
                   issued, audit, restVars>>

\* ... after 23505, the select of the winner's row; the function throws when
\* the row is gone
CallRaceWinner ==
    /\ call.pc = "race_winner"
    /\ call' = IF mapping = NULL
               THEN [call EXCEPT !.pc = "idle", !.response = 500]
               ELSE [call EXCEPT !.pc = "sync_customer", !.customer = mapping]
    /\ UNCHANGED <<now, webVars, coVars, subVars, billVars, mapping, liveCustomers,
                   issued, audit, restVars>>

\* ... the customer id copied into the subscription rows that have none, and
\* the recreated audit row of resolveOrCreateWorkspaceStripeCustomerId
CallSyncCustomer ==
    /\ call.pc = "sync_customer"
    /\ subscriptions' = [i \in RowIds(subscriptions) |->
                            IF subscriptions[i].stripe_customer_id = NULL
                            THEN [subscriptions[i] EXCEPT !.stripe_customer_id = call.customer]
                            ELSE subscriptions[i]]
    /\ audit' = Append(audit, "recreated")
    /\ call' = [call EXCEPT !.pc = "execute"]
    /\ UNCHANGED <<now, webVars, coVars, subVars, workspacePlan, jobs, mapping,
                   liveCustomers, issued, restVars>>

\* The runtime runs the other in-flight call.
SwitchCall ==
    /\ call # parkedCall
    /\ call' = parkedCall
    /\ parkedCall' = call
    /\ UNCHANGED <<now, webVars, coVars, subVars, billVars, mapping, liveCustomers,
                   issued, audit, syncVars, parked, buildVars>>

\* execute(customerId): the session is created for a live customer and the
\* handler answers 200; on a missing customer the mapping is invalidated and
\* resolved once more, and a second failure is answered 500.
CallExecute_RetryAgain ==
    /\ call.pc = "execute"
    /\ IF call.customer \in liveCustomers
       THEN /\ call' = [call EXCEPT !.pc = "idle", !.response = 200,
                                    !.executes = @ + 1]
            /\ UNCHANGED <<mapping, audit>>
       ELSE IF call.executes < 2
       THEN /\ mapping' = InvalidatedMapping(call.customer)
            /\ audit' = InvalidatedAudit(call.customer)
            /\ call' = [call EXCEPT !.pc = "resolve_read", !.retried = TRUE,
                                    !.executes = @ + 1]
       ELSE /\ call' = [call EXCEPT !.pc = "idle", !.response = 500,
                                    !.executes = @ + 1]
            /\ UNCHANGED <<mapping, audit>>
    /\ UNCHANGED <<now, webVars, coVars, subVars, billVars, liveCustomers, issued, restVars>>

CallExecute ==
    /\ call.pc = "execute"
    /\ IF call.customer \in liveCustomers
       THEN /\ call' = [call EXCEPT !.pc = "idle", !.response = 200,
                                    !.executes = @ + 1]
            /\ UNCHANGED <<mapping, audit>>
       ELSE IF ~call.retried
       THEN /\ mapping' = InvalidatedMapping(call.customer)
            /\ audit' = InvalidatedAudit(call.customer)
            /\ call' = [call EXCEPT !.pc = "resolve_read", !.retried = TRUE,
                                    !.executes = @ + 1]
       ELSE /\ call' = [call EXCEPT !.pc = "idle", !.response = 500,
                                    !.executes = @ + 1]
            /\ UNCHANGED <<mapping, audit>>
    /\ UNCHANGED <<now, webVars, coVars, subVars, billVars, liveCustomers, issued, restVars>>

\* execute(customerId) fails with an error that is not a missing customer (the
\* upstream is unreachable or rejects the request): the error is rethrown and
\* the handler's catch answers 500.
CallExecuteError ==
    /\ call.pc = "execute"
    /\ call' = [call EXCEPT !.pc = "idle", !.response = 500, !.outage = TRUE,
                            !.executes = @ + 1]
    /\ UNCHANGED <<now, webVars, coVars, subVars, billVars, mapping, liveCustomers,
                   issued, audit, restVars>>

CallStep ==
    \/ CallPreferred
    \/ CallResolveRead
    \/ CallResolveRetrieve
    \/ CallCreate
    \/ CallExecute
    \/ CallExecuteError

\* The customer.deleted event applied next to the calls.
DeletedJobStep(p) ==
    \/ DeletedResolve(p)
    \/ DeletedSelect(p)
    \/ DeletedCancel(p)
    \/ EnsureFree(p)
    \/ RefreshRead(p)
    \/ RefreshWrite(p)

\* Two portal or checkout calls of one workspace next to each other.
NextCustomerRace ==
    \/ \E operation \in {"checkout-session", "portal-session"} : CallStart(operation)
    \/ CallResolveRead
    \/ CallResolveRetrieve
    \/ CallCreateCustomer
    \/ CallInsertMapping
    \/ CallRaceWinner
    \/ CallSyncCustomer
    \/ CallExecute
    \/ SwitchCall

NextCustomer ==
    \/ \E operation \in {"checkout-session", "portal-session"} : CallStart(operation)
    \/ CallStep
    \/ \E c \in AllCustomers : DeleteCustomerUpstream(c)
    \/ \E p \in Workers, c \in AllCustomers : CustomerDeletedStart(p, c)
    \/ \E p \in Workers : DeletedJobStep(p)

(***************************************************************************)
(* Catalog sync: syncStripeCatalog and extractCatalogCandidate             *)
(***************************************************************************)
CATALOG_CURRENCY == "usd"
CATALOG_PLAN_SLUGS == {"pro", "business"}
CATALOG_INTERVALS == {"monthly", "yearly"}

\* env.STRIPE_CATALOG_ENV of the deployment.
CatalogEnv == "prod"

\* A price without a lookup key; a key is the sequence of its ':'-separated parts.
NoLookupKey == <<>>

LookupKeys ==
    { NoLookupKey,
      <<"formsandbox", "prod", "pro", "monthly", "usd">>,
      <<"formsandbox", "prod", "business", "yearly", "usd">>,
      <<"formsandbox", "test", "pro", "monthly", "usd">> }

\* metadata.plan_slug, metadata.interval and metadata.self_serve as the
\* dashboard can set them; NULL is an absent key.
PriceMetadata ==
    [plan_slug : {NULL, "pro", "business"},
     interval : {NULL, "monthly", "yearly"},
     self_serve : {NULL, "true", "false"}]

\* unit_amount null.
NoAmount == 0 - 1

UpstreamPrices ==
    [id : {"price_1"},
     active : {TRUE},
     currency : {"usd", "eur"},
     recurring : {"month", "year"},
     unit_amount : {NoAmount, 900},
     metadata : PriceMetadata,
     lookup_key : LookupKeys,
     created : {1}]

NoLookup == [envSlug |-> NULL, planSlug |-> NULL, interval |-> NULL, currency |-> NULL]

parseLookupKey(lookupKey) ==
    IF lookupKey = NoLookupKey THEN NoLookup
    ELSE IF Len(lookupKey) # 5 \/ lookupKey[1] # "formsandbox" THEN NoLookup
    ELSE IF lookupKey[3] \notin {"pro", "business"} THEN NoLookup
    ELSE IF lookupKey[4] \notin {"monthly", "yearly"} THEN NoLookup
    ELSE IF lookupKey[5] # CATALOG_CURRENCY THEN NoLookup
    ELSE [envSlug |-> lookupKey[2], planSlug |-> lookupKey[3],
          interval |-> lookupKey[4], currency |-> lookupKey[5]]

\* normalizeBooleanString on the values of PriceMetadata: "yes" is true,
\* "no" is false, NULL is neither.
normalizeBooleanString(value) ==
    IF value = "true" THEN "yes" ELSE IF value = "false" THEN "no" ELSE NULL

\* a ?? b
Coalesce(a, b) == IF a # NULL THEN a ELSE b

NoCandidate ==
    [planSlug |-> NULL, interval |-> NULL, currency |-> NULL,
     stripePriceId |-> NULL, amountCents |-> 0, created |-> 0]

extractCatalogCandidate(price, catalogEnv) ==
    LET interval == IF price.recurring = "month" THEN "monthly"
                    ELSE IF price.recurring = "year" THEN "yearly" ELSE NULL
        metadataPlan == IF price.metadata.plan_slug \in {"pro", "business"}
                        THEN price.metadata.plan_slug ELSE NULL
        metadataInterval == IF price.metadata.interval \in {"monthly", "yearly"}
                            THEN price.metadata.interval ELSE NULL
        metadataSelfServe == normalizeBooleanString(price.metadata.self_serve)
        lookup == parseLookupKey(price.lookup_key)
        planSlug == Coalesce(metadataPlan, lookup.planSlug)
        normalizedInterval == Coalesce(metadataInterval, Coalesce(lookup.interval, interval))
    IN  IF ~price.active \/ price.currency # CATALOG_CURRENCY THEN NoCandidate
        ELSE IF price.unit_amount = NoAmount \/ price.unit_amount < 0 THEN NoCandidate
        ELSE IF interval = NULL THEN NoCandidate
        ELSE IF lookup # NoLookup /\ catalogEnv # NULL /\ lookup.envSlug # catalogEnv
             THEN NoCandidate
        ELSE IF planSlug = NULL \/ normalizedInterval = NULL THEN NoCandidate
        ELSE IF metadataSelfServe = "no" THEN NoCandidate
        ELSE IF metadataSelfServe # "yes" /\ lookup = NoLookup THEN NoCandidate
        ELSE [planSlug |-> planSlug, interval |-> normalizedInterval,
              currency |-> CATALOG_CURRENCY, stripePriceId |-> price.id,
              amountCents |-> price.unit_amount, created |-> price.created]

VariantKeys == [planSlug : CATALOG_PLAN_SLUGS, interval : CATALOG_INTERVALS]

VariantKeyOf(candidate) == [planSlug |-> candidate.planSlug, interval |-> candidate.interval]

\* One pass of syncStripeCatalog over the listed price: the candidate's
\* variant row takes the price id and the amount when they differ.
syncStripeCatalog ==
    /\ LET candidate == extractCatalogCandidate(upstreamPrice, CatalogEnv)
           key == VariantKeyOf(candidate)
       IN  variants' =
             IF candidate = NoCandidate THEN variants
             ELSE IF /\ variants[key].stripe_price_id = candidate.stripePriceId
                     /\ variants[key].amount_cents = candidate.amountCents
                  THEN variants
             ELSE [variants EXCEPT ![key] = [stripe_price_id |-> candidate.stripePriceId,
                                             amount_cents |-> candidate.amountCents]]
    /\ UNCHANGED <<now, webVars, coVars, subVars, billVars, custVars, upstreamPrice, parkVars,
                   buildVars>>

\* The dashboard edits the price's metadata and lookup key; currency,
\* amount and interval of a price cannot be changed upstream.
PriceEdited(metadata, lookupKey) ==
    /\ upstreamPrice' = [upstreamPrice EXCEPT !.metadata = metadata, !.lookup_key = lookupKey]
    /\ upstreamPrice' # upstreamPrice
    /\ UNCHANGED <<now, webVars, coVars, subVars, billVars, custVars, variants, parkVars,
                   buildVars>>

NextCatalog ==
    \/ syncStripeCatalog
    \/ \E metadata \in PriceMetadata, lookupKey \in LookupKeys : PriceEdited(metadata, lookupKey)

\* The seeded plan_variants rows carry no price id yet.
InitVariants ==
    variants = [k \in VariantKeys |-> [stripe_price_id |-> NULL, amount_cents |-> 0]]

(***************************************************************************)
(* Builder: PUT /build/:workspaceId/forms/:formId (src/routes/build)       *)
(***************************************************************************)
MaxVersion == 3
Savers == {"e1", "e2"}
DraftSchemas == {"s_a", "s_b"}

NoSaveResponse == [status |-> 0, current_version |-> 0, version |-> 0]

\* A save request. `seen` is history: the stored version when the request
\* arrived.
IdleSave ==
    [pc |-> "idle", schema |-> NULL, version |-> 0, seen |-> 0, response |-> NoSaveResponse]

\* A request arrives (body and role checks passed) with a schema and the
\* version its editor holds.
SaveStart(e, schema, version) ==
    /\ saves[e].pc \in {"idle", "done"}
    /\ draft.version < MaxVersion
    /\ saves' = [saves EXCEPT ![e] =
                    [IdleSave EXCEPT !.pc = "update", !.schema = schema,
                                     !.version = version, !.seen = draft.version]]
    /\ UNCHANGED <<now, webVars, coVars, subVars, billVars, custVars, syncVars, parkVars, draft>>

\* An update that does not compare the stored version.
SaveUpdate_NoVersionCheck(e) ==
    /\ saves[e].pc = "update"
    /\ IF ~draft.deleted
       THEN /\ draft' = [draft EXCEPT !.schema = saves[e].schema,
                                      !.version = saves[e].version + 1]
            /\ saves' = [saves EXCEPT ![e] =
                            [@ EXCEPT !.pc = "done",
                                      !.response = [status |-> 200, current_version |-> 0,
                                                    version |-> saves[e].version + 1]]]
       ELSE /\ saves' = [saves EXCEPT ![e] = [@ EXCEPT !.pc = "stale_check"]]
            /\ UNCHANGED draft
    /\ UNCHANGED <<now, webVars, coVars, subVars, billVars, custVars, syncVars, parkVars>>

\* The conditional update: schema and version + 1 where the row is not
\* deleted and holds the request's version; 200 with the updated row.
SaveUpdate(e) ==
    /\ saves[e].pc = "update"
    /\ IF ~draft.deleted /\ draft.version = saves[e].version
       THEN /\ draft' = [draft EXCEPT !.schema = saves[e].schema,
                                      !.version = saves[e].version + 1]
            /\ saves' = [saves EXCEPT ![e] =
                            [@ EXCEPT !.pc = "done",
                                      !.response = [status |-> 200, current_version |-> 0,
                                                    version |-> saves[e].version + 1]]]
       ELSE /\ saves' = [saves EXCEPT ![e] = [@ EXCEPT !.pc = "stale_check"]]
            /\ UNCHANGED draft
    /\ UNCHANGED <<now, webVars, coVars, subVars, billVars, custVars, syncVars, parkVars>>

\* No row was updated: the row is read again; 404 when it is deleted, 409
\* Version conflict with its version otherwise.
SaveStaleCheck(e) ==
    /\ saves[e].pc = "stale_check"
    /\ saves' = [saves EXCEPT ![e] =
                    [@ EXCEPT !.pc = "done",
                              !.response = IF draft.deleted
                                           THEN [status |-> 404, current_version |-> 0,
                                                 version |-> 0]
                                           ELSE [status |-> 409,
                                                 current_version |-> draft.version,
                                                 version |-> 0]]]
    /\ UNCHANGED <<now, webVars, coVars, subVars, billVars, custVars, syncVars, parkVars, draft>>

\* DELETE /build/:workspaceId/forms/:formId: the soft delete.
DeleteForm ==
    /\ ~draft.deleted
    /\ draft' = [draft EXCEPT !.deleted = TRUE]
    /\ UNCHANGED <<now, webVars, coVars, subVars, billVars, custVars, syncVars, parkVars, saves>>

NextBuild ==
    \/ \E e \in Savers, schema \in DraftSchemas, version \in 1..MaxVersion :
          SaveStart(e, schema, version)
    \/ \E e \in Savers : SaveUpdate(e)
    \/ \E e \in Savers : SaveStaleCheck(e)
    \/ DeleteForm

\* A form right after its creation, no save in flight.
InitBuildIdle ==
    /\ draft = [version |-> 1, schema |-> "s_a", deleted |-> FALSE]
    /\ saves = [e \in Savers |-> IdleSave]

\* No second request is in flight.
InitParked ==
    /\ parked = IdleSubmit
    /\ parkedCall = IdleCall

\* No sync has run and the listed price carries a lookup key only.
InitRestIdle ==
    /\ InitParked
    /\ InitBuildIdle
    /\ upstreamPrice = [id |-> "price_1", active |-> TRUE, currency |-> "usd",
                        recurring |-> "month", unit_amount |-> 900,
                        metadata |-> [plan_slug |-> NULL, interval |-> NULL, self_serve |-> NULL],
                        lookup_key |-> <<"formsandbox", "prod", "pro", "monthly", "usd">>,
                        created |-> 1]
    /\ InitVariants

InitCustomer ==
    /\ mapping = CustomerIds[1]
    /\ liveCustomers = {CustomerIds[1]}
    /\ issued = 1
    /\ audit = <<>>
    /\ call = IdleCall

\* A workspace holds its free subscription row from its creation on.
InitBilling ==
    /\ subscriptions = <<FreeRow>>
    /\ workspacePlan = FREE_PLAN_SLUG
    /\ jobs = [p \in Processes |-> IdleJob]
    /\ InitCustomer

InitWebhook ==
    /\ now = 0
    /\ \E k \in {0, MAX_WEBHOOK_ATTEMPTS - 2, MAX_WEBHOOK_ATTEMPTS - 1} :
          /\ events = [e \in EventIds |->
                          IF e = "evt_2" /\ k > 0 THEN FailedRow(k) ELSE AbsentRow]
          /\ order = IF k > 0 THEN <<"evt_2">> ELSE <<>>
    /\ tasks = [t \in Tasks |-> IdleTask]
    /\ applied = [e \in EventIds |-> 0]
    /\ stable = FALSE
    /\ webhook = IdleWebhook
    /\ InitCheckout
    /\ InitRestIdle
    /\ InitSubmitIdle
    /\ InitBilling

TaskStep(t) ==
    \/ Claim(t)
    \/ ProcessOk(t)
    \/ ProcessFail(t)
    \/ MarkCompleted(t)
    \/ MarkFailed(t)

NextWebhook ==
    \/ \E e \in EventIds, t \in Tasks : WebhookIngest(e, t)
    \/ \E e \in EventIds : WebhookDuplicate(e)
    \/ \E t \in Tasks : RetryTick(t)
    \/ \E t \in Tasks : TaskStep(t)
    \/ \E t \in Tasks : Crash(t)
    \/ Stabilize
    \/ \E d \in TimeSteps : AdvanceTime(d)

Spec == InitWebhook /\ [][NextWebhook]_vars

\* Weak fairness the scheduling justifies: the cron trigger fires the retry
\* tick every five minutes, and an execution that does not die runs to its end.
FairWebhook ==
    /\ WF_vars(\E t \in Tasks : RetryTick(t))
    /\ \A t \in Tasks : WF_vars(TaskStep(t))

\* The queue after evt_2 was delivered and completed earlier; evt_1 either has
\* not arrived yet or has failed MAX_WEBHOOK_ATTEMPTS - 1 times and is due.
InitWebhookLive ==
    /\ now = 0
    /\ \E k \in {0, MAX_WEBHOOK_ATTEMPTS - 1} :
          /\ events = [e \in EventIds |->
                          IF e = "evt_2" THEN CompletedRow
                          ELSE IF k > 0 THEN FailedRow(k) ELSE AbsentRow]
          /\ order = IF k > 0 THEN <<"evt_2", "evt_1">> ELSE <<"evt_2">>
    /\ tasks = [t \in Tasks |-> IdleTask]
    /\ applied = [e \in EventIds |-> IF e = "evt_2" THEN 1 ELSE 0]
    /\ stable = FALSE
    /\ webhook = IdleWebhook
    /\ InitCheckout
    /\ InitRestIdle
    /\ InitSubmitIdle
    /\ InitBilling

SpecLive == InitWebhookLive /\ [][NextWebhook]_vars /\ FairWebhook

\* Deliveries to POST /webhook with every guard outcome, next to one scheduled
\* tick, within one lease period; evt_2 was delivered and completed earlier.
InitIngest ==
    /\ now = 0
    /\ events = [e \in EventIds |-> IF e = "evt_2" THEN CompletedRow ELSE AbsentRow]
    /\ order = <<"evt_2">>
    /\ tasks = [t \in Tasks |-> IdleTask]
    /\ applied = [e \in EventIds |-> IF e = "evt_2" THEN 1 ELSE 0]
    /\ stable = FALSE
    /\ webhook = IdleWebhook
    /\ InitCheckout
    /\ InitRestIdle
    /\ InitSubmitIdle
    /\ InitBilling

NextIngest ==
    \/ WebhookRequestStep
    \/ RetryTick(TickTask)
    \/ \E t \in Tasks : TaskStep(t)
    \/ \E t \in Tasks : Crash(t)

SpecIngest == InitIngest /\ [][NextIngest]_vars

InitCheckoutOnly ==
    /\ now = 0
    /\ InitWebhookIdle
    /\ InitCheckout
    /\ InitRestIdle
    /\ InitSubmitIdle
    /\ InitBilling

SpecCheckout == InitCheckoutOnly /\ [][NextCheckout]_vars

\* One user retrying one body under one key, with database outages that also
\* hit the catch block's update.
InitCheckoutLive ==
    /\ now = 0
    /\ InitWebhookIdle
    /\ InitCheckout
    /\ InitRestIdle
    /\ InitSubmitIdle
    /\ InitBilling

NextCheckoutLive ==
    \/ \E r \in Requests : CheckoutStart(r, "u_1", "pro:monthly")
    \/ \E r \in Requests : CheckoutStep(r)
    \/ \E r \in Requests : CheckoutCatchFails(r)
    \/ \E d \in CheckoutTimeSteps : CheckoutAdvanceTime(d)

\* Weak fairness the runtime justifies: a handler that has started runs to
\* its response.
FairCheckout ==
    \A r \in Requests : WF_vars(CheckoutStep(r) \/ CheckoutCatchFails(r))

SpecCheckoutLive == InitCheckoutLive /\ [][NextCheckoutLive]_vars /\ FairCheckout

InitSubmitOnly ==
    /\ now = 0
    /\ InitWebhookIdle
    /\ InitCheckout
    /\ InitRestIdle
    /\ InitSubmit
    /\ InitBilling

SpecSubmit == InitSubmitOnly /\ [][NextSubmit]_vars

\* A published form on a plan that allows one submission a month.
InitSubmitRace ==
    /\ now = 0
    /\ InitWebhookIdle
    /\ InitCheckout
    /\ InitRestIdle
    /\ submissions = <<>>
    /\ form = [published |-> TRUE, schema |-> DefaultSchema]
    /\ quotaCfg = [is_enabled |-> TRUE, limit_value |-> 1]
    /\ rateCount = 0
    /\ submit = IdleSubmit
    /\ InitBilling

SpecSubmitRace == InitSubmitRace /\ [][NextSubmitRace]_vars

\* A published form with the default schema on an unlimited plan.
InitSubmitBlank ==
    /\ now = 0
    /\ InitWebhookIdle
    /\ InitCheckout
    /\ InitRestIdle
    /\ InitSubmitIdle
    /\ InitBilling

SpecSubmitBlank == InitSubmitBlank /\ [][NextSubmitBlank]_vars

InitBillingOnly ==
    /\ now = 0
    /\ InitWebhookIdle
    /\ InitCheckout
    /\ InitRestIdle
    /\ InitSubmitIdle
    /\ InitBilling

SpecBilling == InitBillingOnly /\ [][NextBilling]_vars

\* The workspace is on the free plan or already subscribed through its customer.
InitCustomerOnly ==
    /\ now = 0
    /\ InitWebhookIdle
    /\ InitCheckout
    /\ InitRestIdle
    /\ InitSubmitIdle
    /\ subscriptions \in {<<FreeRow>>,
                          <<[FreeRow EXCEPT !.stripe_subscription_id = "sub_1",
                                            !.stripe_customer_id = CustomerIds[1],
                                            !.plan = PlanOf("sub_1")]>>}
    /\ workspacePlan = subscriptions[1].plan
    /\ jobs = [p \in Processes |-> IdleJob]
    /\ InitCustomer

SpecCustomer == InitCustomerOnly /\ [][NextCustomer]_vars

\* A free workspace whose customer cus_1 was deleted upstream: its mapping row
\* still names cus_1, or the customer.deleted event has removed the row.
InitCustomerRace ==
    /\ now = 0
    /\ InitWebhookIdle
    /\ InitCheckout
    /\ InitRestIdle
    /\ InitSubmitIdle
    /\ subscriptions = <<FreeRow>>
    /\ workspacePlan = FREE_PLAN_SLUG
    /\ jobs = [p \in Processes |-> IdleJob]
    /\ mapping \in {NULL, CustomerIds[1]}
    /\ liveCustomers = {}
    /\ issued = 1
    /\ audit = <<>>
    /\ call = IdleCall

SpecCustomerRace == InitCustomerRace /\ [][NextCustomerRace]_vars

InitCatalogOnly ==
    /\ now = 0
    /\ InitWebhookIdle
    /\ InitCheckout
    /\ InitSubmitIdle
    /\ InitBilling
    /\ upstreamPrice \in UpstreamPrices
    /\ InitVariants
    /\ InitParked
    /\ InitBuildIdle

SpecCatalog == InitCatalogOnly /\ [][NextCatalog]_vars

InitBuildOnly ==
    /\ now = 0
    /\ InitWebhookIdle
    /\ InitCheckout
    /\ InitRestIdle
    /\ InitSubmitIdle
    /\ InitBilling

SpecBuild == InitBuildOnly /\ [][NextBuild]_vars

(***************************************************************************)
(* Properties of the webhook queue                                         *)
(***************************************************************************)

\* Both events of the model are customer.subscription.* events of one subscription.
EventSubscription(e) == "sub_1"

\* The task whose step this is has just been granted a claim on e.
ClaimGranted(e) == events'[e].attempts = events[e].attempts + 1

\* The row is processing and its lease has not expired (the RPC reclaims a
\* processing row only when claim_expires_at < now).
LeaseLive(row, t) == row.status = "processing" /\ row.claim_expires_at >= t

\* C1: for any event id, processStripeEvent returns successfully at most once,
\* whatever deliveries, retry ticks and lease reclaims occur.
C1_AppliedAtMostOnce == \A e \in EventIds : applied[e] <= 1

\* C6: a claim is never granted on a row that is processing with an unexpired
\* lease; a processing row is taken over only after claim_expires_at has passed.
C6_LeaseExclusive ==
    [][\A e \in EventIds : ClaimGranted(e) => ~LeaseLive(events[e], now)]_vars

\* C6 witness: a row has been taken over after its lease expired while the
\* first claimant is still running.
C6_Witness ==
    \E e \in EventIds, t1, t2 \in Tasks :
        /\ t1 # t2
        /\ events[e].status = "processing"
        /\ events[e].processor_id = t2
        /\ events[e].claim_expires_at >= now
        /\ tasks[t2].pc = "processing" /\ tasks[t2].event = e
        /\ tasks[t1].pc = "processing" /\ tasks[t1].event = e

\* C8: an execution's completed / failed write changes the row only while the
\* row names that execution as its processor.
C8_WriteOnlyByHolder ==
    [][\A t \in Tasks :
          (/\ tasks[t].pc \in {"ok", "err"}
           /\ tasks'[t] # tasks[t]
           /\ events'[tasks[t].event] # events[tasks[t].event])
          => events[tasks[t].event].processor_id = t]_vars

\* C9: two different events of the same subscription are never being applied
\* (inside processStripeEvent) at the same time.
C9_EntitySerialized ==
    \A t1, t2 \in Tasks :
        (/\ t1 # t2
         /\ tasks[t1].pc = "processing"
         /\ tasks[t2].pc = "processing"
         /\ tasks[t1].event # tasks[t2].event)
        => EventSubscription(tasks[t1].event) # EventSubscription(tasks[t2].event)

\* The row reached a terminal write of an execution: completed, or failed with
\* a retry time stored.
Settled(e) ==
    \/ events[e].status = "completed"
    \/ events[e].status = "failed" /\ events[e].next_attempt_at # NoTime

\* The row is processing and its lease has run out.
LeaseExpired(e) ==
    events[e].status = "processing" /\ events[e].claim_expires_at < now

\* C7 (as stated): once executions stop dying, every row left processing past
\* claim_expires_at is eventually completed or failed with next_attempt_at set.
C7_ExpiredLeaseSettles ==
    \A e \in EventIds : (stable /\ LeaseExpired(e)) ~> Settled(e)

\* C7 (amended): the same, for rows whose attempts are below MAX_WEBHOOK_ATTEMPTS.
C7_ExpiredLeaseSettlesBelowMax ==
    \A e \in EventIds :
        (stable /\ LeaseExpired(e) /\ events[e].attempts < MAX_WEBHOOK_ATTEMPTS)
            ~> Settled(e)

\* C7 witness: a row below the attempt limit sits in processing with an expired
\* lease and no execution is working on it.
C7_Witness ==
    \E e \in EventIds :
        /\ stable
        /\ LeaseExpired(e)
        /\ events[e].attempts < MAX_WEBHOOK_ATTEMPTS
        /\ \A t \in Tasks : tasks[t].event # e

\* C10: once executions stop dying, every pending row is eventually processed
\* (completed or failed), whether or not the ingesting request's task ran.
C10_PendingProcessed ==
    \A e \in EventIds :
        (stable /\ events[e].status = "pending")
            ~> (events[e].status \in {"completed", "failed"})

\* C10 witness: the ingesting request's task died before claiming; the row is
\* pending and no execution is working on it.
C10_Witness ==
    \E e \in EventIds :
        /\ stable
        /\ events[e].status = "pending"
        /\ events[e].attempts = 0
        /\ \A t \in Tasks : tasks[t].pc = "idle"

(***************************************************************************)
(* Properties of the checkout ledger                                       *)
(***************************************************************************)

\* C2 (as stated): a request that repeats the Idempotency-Key with the same
\* body while the row is completed and unexpired answers the row's session id
\* with idempotent_replay, and creates no upstream session.
C2_RepeatReplaysSession ==
    \A r \in Requests :
        (checkouts[r].pc = "done" /\ checkouts[r].replay)
        => /\ checkouts[r].response =
                  Response("idempotent_replay", ledger.stripe_checkout_session_id)
           /\ ~checkouts[r].created

\* C2 (amended): a request that reads the ledger (no entitled paid
\* subscription, variant resolved, no call failing) and finds the row
\* completed, with its own fingerprint and unexpired, answers the row's session
\* id with idempotent_replay, creates no upstream session and leaves the row.
C2_CompletedRowReplays ==
    [][\A r \in Requests :
          (/\ checkouts[r].pc \in {"get_row", "reload", "post_transition"}
           /\ checkouts'[r] # checkouts[r]
           /\ checkouts'[r].pc # "catch"
           /\ ledger.status = "completed"
           /\ ledger.request_fingerprint = Fingerprint(checkouts[r])
           /\ ledger.expires_at > now)
          => /\ checkouts'[r].pc = "done"
             /\ checkouts'[r].response =
                    Response("idempotent_replay", ledger.stripe_checkout_session_id)
             /\ ~checkouts'[r].created
             /\ ledger' = ledger]_vars

\* C2 witness: a repeat of a completed, unexpired row was answered as a replay.
C2_Witness ==
    \E r \in Requests :
        /\ checkouts[r].pc = "done"
        /\ checkouts[r].replay
        /\ checkouts[r].response.kind = "idempotent_replay"
        /\ checkouts[r].response.session = ledger.stripe_checkout_session_id

(***************************************************************************)
(* Properties of the submission pipeline                                   *)
(***************************************************************************)

\* The first row persisted under the key.
FirstRow(key) ==
    submissions[CHOOSE i \in RowsWithKey(submissions, key) :
                    \A j \in RowsWithKey(submissions, key) : i <= j]

\* C3 (as stated): a request repeating a persisted (key, data) is answered with
\* the first submission's id, and no key has a second submission.
C3_RepeatReturnsFirstId ==
    /\ \A k \in IdempotencyKeys : Cardinality(RowsWithKey(submissions, k)) <= 1
    /\ (submit.pc = "done" /\ submit.repeat)
        => /\ submit.response.status = 201
           /\ submit.response.submission_id = FirstRow(submit.key).id

\* C3 (amended): every 201 answer carries the id of the first submission
\* persisted under the request's key, and no key has a second submission.
C3_AcceptedReturnsFirstId ==
    /\ \A k \in IdempotencyKeys : Cardinality(RowsWithKey(submissions, k)) <= 1
    /\ Len(submissions) <= Cardinality(IdempotencyKeys)
    /\ (submit.pc = "done" /\ submit.response.status = 201)
        => /\ RowsWithKey(submissions, submit.key) # {}
           /\ submit.response.submission_id = FirstRow(submit.key).id

\* C3 witness: a repeat of a persisted (key, data) answered 201 with the id of
\* the one row.
C3_Witness ==
    /\ submit.pc = "done"
    /\ submit.repeat
    /\ submit.response.status = 201
    /\ Len(submissions) = 1
    /\ submit.response.submission_id = submissions[1].id

\* Some matching rule of the contract has a hide action on the field.
HiddenByMatchingRule(contract, data, f) ==
    \E i \in 1..Len(contract.rules) :
        /\ RuleMatched(contract.rules[i], data)
        /\ \E j \in 1..Len(contract.rules[i].actions) :
              /\ contract.rules[i].actions[j].targetFieldId = f
              /\ contract.rules[i].actions[j].type = "hide"

\* The positions <<rule, action>> of the matching rules' actions on the field.
ActionsOn(contract, data, f) ==
    {p \in (1..Len(contract.rules)) \X (1..2) :
        /\ RuleMatched(contract.rules[p[1]], data)
        /\ p[2] <= Len(contract.rules[p[1]].actions)
        /\ contract.rules[p[1]].actions[p[2]].targetFieldId = f}

Later(p, q) == p[1] > q[1] \/ (p[1] = q[1] /\ p[2] >= q[2])

\* The field's final visibility: its default, or the last matching action.
FinallyHidden(contract, data, f) ==
    IF ActionsOn(contract, data, f) = {} THEN ~contract.fields[f].defaultVisible
    ELSE LET last == CHOOSE p \in ActionsOn(contract, data, f) :
                        \A q \in ActionsOn(contract, data, f) : Later(p, q)
         IN  contract.rules[last[1]].actions[last[2]].type = "hide"

\* C4 (as stated): when a matching rule hides F and the submission includes F,
\* the submission is accepted and the data handed to submit_form lacks F.
C4_HideRuleStrips ==
    (submit.pc = "done" /\ submit.parsed)
    => \A f \in FieldIds :
          (f \in DOMAIN submit.data /\ HiddenByMatchingRule(submit.contract, submit.data, f))
          => /\ submit.response.status = 201
             /\ submit.called
             /\ f \notin DOMAIN submit.handed

\* C4 (amended): a field whose final visibility is hidden is never part of the
\* data handed to submit_form.
C4_FinallyHiddenStripped ==
    (submit.pc = "done" /\ submit.called)
    => \A f \in FieldIds :
          FinallyHidden(submit.contract, submit.data, f) => f \notin DOMAIN submit.handed

\* C4 witness: an accepted submission that included a hidden field, handed on
\* without it.
C4_Witness ==
    /\ submit.pc = "done"
    /\ submit.called
    /\ submit.response.status = 201
    /\ "f2" \in DOMAIN submit.data
    /\ HiddenByMatchingRule(submit.contract, submit.data, "f2")
    /\ FinallyHidden(submit.contract, submit.data, "f2")
    /\ "f2" \notin DOMAIN submit.handed

\* C5: a request whose body has a key outside the parsed registry is answered
\* 422 FIELD_VALIDATION_FAILED listing the key, and never calls submit_form.
C5_UnknownKeyRejected ==
    (submit.pc = "done" /\ submit.parsed)
    => \A k \in DOMAIN submit.data \ DOMAIN submit.contract.fields :
          /\ submit.response.status = 422
          /\ submit.response.code = "FIELD_VALIDATION_FAILED"
          /\ k \in submit.response.unknown_fields
          /\ ~submit.called

\* C5 witness: a body with the unknown key zz was rejected.
C5_Witness ==
    /\ submit.pc = "done"
    /\ submit.parsed
    /\ "zz" \in DOMAIN submit.data
    /\ submit.response.status = 422
    /\ "zz" \in submit.response.unknown_fields
    /\ ~submit.called

\* The step is request r evaluating the ledger row (getCheckoutIdempotencyRow
\* followed by resolveExistingIdempotencyRow) without a call failing.
EvaluatesRow(r) ==
    /\ checkouts[r].pc \in {"get_row", "reload", "post_transition"}
    /\ checkouts'[r] # checkouts[r]
    /\ checkouts'[r].pc # "catch"

C12_ExpiredRowAnswersExpired ==
    [][\A r \in Requests :
          (/\ EvaluatesRow(r)
           /\ ledger.status # "absent"
           /\ isExpiredIso(ledger.expires_at, now))
          => /\ checkouts'[r].pc = "done"
             /\ checkouts'[r].response = Response("IDEMPOTENCY_KEY_EXPIRED", NULL)]_vars

\* C13 (as stated): the request that lost the insert reloads the row and is
\* answered with the cached session or 409 CHECKOUT_IN_PROGRESS, without an
\* upstream session of its own; the insert of the loser changes nothing.
C13_LoserAnsweredByReplay ==
    [][\A r \in Requests :
          /\ (checkouts[r].pc = "insert" /\ checkouts'[r] # checkouts[r]
                 /\ checkouts'[r].pc # "catch" /\ ledger.status # "absent")
             => (ledger' = ledger /\ checkouts'[r].pc = "reload")
          /\ (/\ checkouts[r].pc = "reload"
              /\ EvaluatesRow(r)
              /\ ledger.request_fingerprint = Fingerprint(checkouts[r])
              /\ ~isExpiredIso(ledger.expires_at, now))
             => /\ checkouts'[r].pc = "done"
                /\ checkouts'[r].response.kind \in {"idempotent_replay", "CHECKOUT_IN_PROGRESS"}
                /\ ~checkouts'[r].created]_vars

\* C13 (amended): the same while the winner's row is in_progress or completed;
\* a row the winner has already marked failed is not answered from the ledger.
C13_LoserAnsweredWhileRowLive ==
    [][\A r \in Requests :
          /\ (checkouts[r].pc = "insert" /\ checkouts'[r] # checkouts[r]
                 /\ checkouts'[r].pc # "catch" /\ ledger.status # "absent")
             => (ledger' = ledger /\ checkouts'[r].pc = "reload")
          /\ (/\ checkouts[r].pc = "reload"
              /\ EvaluatesRow(r)
              /\ ledger.request_fingerprint = Fingerprint(checkouts[r])
              /\ ~isExpiredIso(ledger.expires_at, now)
              /\ ledger.status \in {"in_progress", "completed"})
             => /\ checkouts'[r].pc = "done"
                /\ checkouts'[r].response =
                       IF ledger.status = "completed"
                       THEN Response("idempotent_replay", ledger.stripe_checkout_session_id)
                       ELSE Response("CHECKOUT_IN_PROGRESS", NULL)
                /\ ~checkouts'[r].created
                /\ ledger' = ledger]_vars

\* C13 witness: both requests started on an absent row; one inserted it and is
\* still running, the other lost the insert and was answered CHECKOUT_IN_PROGRESS.
C13_Witness ==
    \E r1, r2 \in Requests :
        /\ r1 # r2
        /\ checkouts[r1].fresh
        /\ checkouts[r1].pc \in {"create", "complete"}
        /\ checkouts[r2].pc = "done"
        /\ checkouts[r2].prior = "none"
        /\ checkouts[r2].response.kind = "CHECKOUT_IN_PROGRESS"
        /\ ~checkouts[r2].created

\* C14: a completed ledger row holds an upstream checkout session id.
C14_CompletedHoldsSession ==
    ledger.status = "completed" => ledger.stripe_checkout_session_id # NULL

\* C14 witness: a request wrote the completion and the row holds its session.
C14_Witness ==
    /\ ledger.status = "completed"
    /\ ledger.stripe_checkout_session_id = <<"cs", ledger.plan_variant_id>>
    /\ \E r \in Requests : checkouts[r].response.kind = "checkout"


(***************************************************************************)
(* Subscription state and plan cache                                       *)
(***************************************************************************)
AllIdle == \A p \in Processes : jobs[p].pc = "idle"

PaidEntitledIds ==
    {i \in EntitledIds(subscriptions) : subscriptions[i].plan # FREE_PLAN_SLUG}

FreeEntitledIds ==
    {i \in EntitledIds(subscriptions) :
        /\ subscriptions[i].stripe_subscription_id = NULL
        /\ subscriptions[i].plan = FREE_PLAN_SLUG}

\* C15: the workspace never has more than one subscription row whose status
\* is entitled (active, trialing or past_due), whatever events, grace passes
\* and ensure-free calls have been applied.
C15_AtMostOneEntitled == Cardinality(EntitledIds(subscriptions)) <= 1

\* C16: once every event application and grace pass has returned, a workspace
\* without an entitled paid subscription has exactly one entitled free row
\* that is not linked to Stripe, and its cached plan is free.
C16_FreeTierConvergence ==
    (AllIdle /\ PaidEntitledIds = {})
        => /\ Cardinality(FreeEntitledIds) = 1
           /\ workspacePlan = FREE_PLAN_SLUG

\* C17: once every event application and grace pass has returned, the cached
\* workspaces.plan is the plan slug of the workspace's entitled subscription,
\* and free when no subscription is entitled.
C17_PlanCacheMatchesEntitled ==
    AllIdle =>
        IF EntitledIds(subscriptions) = {}
        THEN workspacePlan = FREE_PLAN_SLUG
        ELSE \A i \in EntitledIds(subscriptions) : workspacePlan = subscriptions[i].plan

\* C18: no step of applying invoice.payment_failed or invoice.paid adds a
\* subscription row or changes the status of one; such an event changes
\* grace_period_end only.
C18_InvoiceKeepsStatus ==
    [][\A p \in Workers :
          (jobs[p].type \in InvoiceEventTypes /\ jobs'[p] # jobs[p])
              => /\ Len(subscriptions') = Len(subscriptions)
                 /\ \A i \in RowIds(subscriptions) :
                       subscriptions'[i].status = subscriptions[i].status]_vars

\* C19: the grace-expiry pass sets a subscription to canceled only when the
\* row is past_due and its grace_period_end is set and not after now.
C19_GraceCancelsOnlyExpired ==
    [][(jobs[CronJob].pc = "grace_cancel" /\ jobs'[CronJob].pc # "grace_cancel")
          => Head(jobs[CronJob].rows) \in GraceExpiredIds(subscriptions, now)]_vars


(***************************************************************************)
(* Customer mapping recovery                                               *)
(***************************************************************************)
CallReturns == call.pc = "execute" /\ call'.pc = "idle"

\* The audit rows written since the call began.
Gained(log, c) == SubSeq(log, c.base + 1, Len(log))

InvalidatedThenRecreated(rows) ==
    \E i, j \in 1..Len(rows) :
        /\ i < j
        /\ rows[i] = "invalidated"
        /\ rows[j] = "recreated"

NewlyCreated(c) ==
    \E k \in (call.issuedBase + 1)..Len(CustomerIds) : k <= issued' /\ c = CustomerIds[k]

Recovered ==
    /\ call'.response = 200
    /\ mapping' # NULL
    /\ NewlyCreated(mapping')
    /\ InvalidatedThenRecreated(Gained(audit', call))

C21_ExecuteAtMostTwice ==
    [][/\ (call'.retried /\ ~call.retried)
            => (call.pc = "execute" /\ call.executes = 0
                /\ call.customer \notin liveCustomers)
       /\ (call'.executes # call.executes /\ call'.executes # 0)
            => /\ call.pc = "execute"
               /\ call'.executes <= 2
               /\ call.executes = 1
                    => /\ call.retried
                       /\ call'.pc = "idle"
                       /\ call.customer \notin liveCustomers => call'.response = 500]_vars

C21_Witness ==
    /\ call.pc = "idle"
    /\ call.executes = 2
    /\ call.retried
    /\ call.response = 500
    /\ ~call.outage


(***************************************************************************)
(* Attempt ceiling, backoff and ingestion of the webhook queue             *)
(***************************************************************************)
\* C22: attempts never exceeds MAX_WEBHOOK_ATTEMPTS; a row whose attempts has
\* reached it is not claimed again and is not selected by a retry tick, and a
\* row that failed its last attempt stays failed.
C22_AttemptCeiling ==
    [][\A e \in EventIds :
          /\ events'[e].attempts <= MAX_WEBHOOK_ATTEMPTS
          /\ events[e].attempts >= MAX_WEBHOOK_ATTEMPTS
                => /\ events'[e].attempts = events[e].attempts
                   /\ \A t \in Tasks :
                         (tasks[t].pc = "idle" /\ tasks'[t].pc # "idle")
                             => /\ tasks'[t].event # e
                                /\ \A i \in 1..Len(tasks'[t].queue) : tasks'[t].queue[i] # e
          /\ (/\ events[e].status = "failed"
              /\ events[e].attempts >= MAX_WEBHOOK_ATTEMPTS
              /\ \A t \in Tasks :
                    ~(/\ tasks[t].pc # "idle" /\ tasks[t].event = e
                      /\ tasks[t].attempts = MAX_WEBHOOK_ATTEMPTS))
                => events'[e].status = "failed"]_vars


\* C23: when processing fails on the attempt numbered k (attempts as returned
\* by the claim), the row is marked failed with next_attempt_at equal to the
\* failure time plus min(3600, 15 * 2^min(k, 10)) seconds; the delay never
\* exceeds one hour.
C23_BackoffOnFailure ==
    [][\A t \in Tasks :
          (tasks[t].pc = "err" /\ tasks'[t].pc # "err")
              => LET e == tasks[t].event
                     k == tasks[t].attempts
                 IN  \/ ~stable /\ events' = events /\ tasks'[t] = IdleTask
                     \/ /\ events'[e].status = "failed"
                        /\ events'[e].next_attempt_at
                              = now + Min(3600, 15 * Pow2(Min(k, 10)))
                        /\ events'[e].next_attempt_at - now <= 3600]_vars

\* A row whose last attempt failed carries the capped one-hour delay.
C23_Witness ==
    \E e \in EventIds :
        /\ events[e].status = "failed"
        /\ events[e].attempts = MAX_WEBHOOK_ATTEMPTS
        /\ events[e].next_attempt_at = now + 3600


(***************************************************************************)
(* POST /stripe/webhook                                                    *)
(***************************************************************************)
\* C24: a delivery that passes the guards, whose event id already has a row and
\* whose insert reports the unique violation, is answered 200 with duplicate
\* true; no row is inserted and no processing is scheduled.
C24_DuplicateDelivery ==
    [][(/\ webhook' # webhook
        /\ webhookGuards(webhook'.signature, webhook'.contentLength,
                         webhook'.payloadBytes, webhook'.verified) = 0
        /\ ~webhook'.dbError
        /\ events[webhook'.event].status # "absent")
          => /\ webhook'.status = 200
             /\ webhook'.duplicate
             /\ ~webhook'.scheduled
             /\ events' = events
             /\ order' = order
             /\ tasks' = tasks]_vars

\* A duplicate of the completed evt_2 was answered while evt_2 has one row.
C24_Witness ==
    /\ webhook.status = 200
    /\ webhook.duplicate
    /\ webhook.event = "evt_2"
    /\ events["evt_2"].status = "completed"
    /\ Len(SelectSeq2(order, {"evt_2"})) = 1


\* The last request carried a signature header, a body within the limit by the
\* declared and by the measured length, and a signature that verified.
WebhookAcceptable(r) ==
    /\ r.signature
    /\ r.contentLength = NoLength \/ r.contentLength <= DEFAULT_WEBHOOK_MAX_BODY_BYTES
    /\ r.payloadBytes <= DEFAULT_WEBHOOK_MAX_BODY_BYTES
    /\ r.verified

\* C25: a row is inserted only by a request with a signature header, a body
\* within STRIPE_WEBHOOK_MAX_BODY_BYTES (declared and measured) and a verified
\* signature; every other request is answered 400 or 413, inserts nothing and
\* starts no processing.
C25_InsertOnlyVerified ==
    [][/\ \A e \in EventIds :
            (events[e].status = "absent" /\ events'[e].status # "absent")
                => /\ webhook'.event = e
                   /\ webhook'.scheduled
                   /\ WebhookAcceptable(webhook')
       /\ (webhook' # webhook /\ ~WebhookAcceptable(webhook'))
            => /\ webhook'.status \in {400, 413}
               /\ events' = events
               /\ order' = order
               /\ tasks' = tasks
               /\ applied' = applied]_vars

\* An acceptable first delivery of evt_1 has just inserted its row.
C25_Witness ==
    /\ webhook.scheduled
    /\ webhook.event = "evt_1"
    /\ WebhookAcceptable(webhook)
    /\ events["evt_1"].status = "pending"

\* C26: the execution started by the inbound request never claims a lease: no
\* row is in processing with the request's execution as its processor.
C26_NoLeaseFromRequest ==
    \A e \in EventIds :
        ~(events[e].status = "processing" /\ events[e].processor_id = RequestTask)


(***************************************************************************)
(* Checkout of an already subscribed workspace                             *)
(***************************************************************************)
\* C27: when the handler's read finds an entitled paid subscription, the
\* request is answered with the portal response (200, destination portal,
\* reason ALREADY_SUBSCRIBED) unless an awaited call rejects, and it never
\* calls stripe.checkout.sessions.create.
C27_PaidWorkspaceGetsPortal ==
    [][\A r \in Requests :
          /\ (checkouts[r].pc = "paid_check" /\ activePaid
                /\ checkouts'[r] # checkouts[r])
                => \/ /\ checkouts'[r].pc = "done"
                      /\ checkouts'[r].response = Response("ALREADY_SUBSCRIBED", NULL)
                      /\ ~checkouts'[r].created
                      /\ ledger' = ledger
                   \/ /\ checkouts'[r].pc = "catch"
                      /\ ~checkouts'[r].created
          /\ checkouts'[r].response.kind = "ALREADY_SUBSCRIBED"
                => ~checkouts'[r].created]_vars

\* A request of the subscribed workspace was answered with the portal.
C27_Witness ==
    \E r \in Requests :
        /\ checkouts[r].pc = "done"
        /\ checkouts[r].response = Response("ALREADY_SUBSCRIBED", NULL)
        /\ ~checkouts[r].created
        /\ activePaid


(***************************************************************************)
(* Status mapping of an incomplete subscription                            *)
(***************************************************************************)
\* C28: syncing a subscription whose upstream status is incomplete leaves the
\* workspace without an entitled row for it and does not set workspaces.plan
\* to the subscription's paid plan.
C28_IncompleteNotEntitled ==
    [][\A p \in Workers :
          (jobs[p].upstream = "incomplete" /\ jobs'[p] # jobs[p])
              => /\ subscriptions' # subscriptions
                    => \A i \in RowIds(subscriptions') :
                          subscriptions'[i].stripe_subscription_id = jobs[p].sub
                              => subscriptions'[i].status \notin ENTITLED_SUBSCRIPTION_STATUSES
                 /\ jobs[p].pc = "refresh_write"
                    => workspacePlan' # PlanOf(jobs[p].sub)]_vars


(***************************************************************************)
(* Fail-closed schema and step order of POST /f/:formId/submit             *)
(***************************************************************************)
UnsupportedFieldType(schema) ==
    \E f \in DOMAIN schema.fields : schema.fields[f].type \notin SUPPORTED_FIELD_TYPES

UnsupportedOperatorIn(logicEntries) ==
    \E i \in 1..Len(logicEntries) :
        \E j \in 1..Len(logicEntries[i].conditions) :
            normalizeOperator(logicEntries[i].conditions[j].operator) = NULL

\* The schema contains an unsupported field type or operator, anywhere.
ContainsUnsupported(schema) ==
    UnsupportedFieldType(schema) \/ UnsupportedOperatorIn(schema.logic)

\* The same, looking at the rules that are not switched off only.
ContainsActiveUnsupported(schema) ==
    UnsupportedFieldType(schema) \/ UnsupportedOperatorIn(ActiveLogic(schema))

UnsupportedSchemaResponse == SubmitResponse(422, "UNSUPPORTED_FORM_SCHEMA")

\* C29 as stated: while the published schema contains an unsupported field
\* type or operator, a submit that reaches the rate-limit check or the form
\* load is answered 422 UNSUPPORTED_FORM_SCHEMA and persists nothing.
C29_UnsupportedAlways422 ==
    [][(/\ submit.pc \in {"rate_limit", "load_form"}
        /\ submit' # submit
        /\ form.published
        /\ ContainsUnsupported(form.schema))
          => /\ submit.pc = "load_form"
                => /\ submit'.pc = "done"
                   /\ submit'.response = UnsupportedSchemaResponse
             /\ submit'.pc = "done" => submit'.response = UnsupportedSchemaResponse
             /\ submissions' = submissions]_vars

\* C29, amended: a submit that passed the rate limit and loads a published
\* schema with an unsupported field type, or with an unsupported operator in a
\* rule that is not switched off, is answered 422 UNSUPPORTED_FORM_SCHEMA and
\* persists nothing; an unsupported operator in a switched-off rule is not
\* looked at.
C29_ActiveUnsupported422 ==
    [][(submit.pc = "load_form" /\ submit' # submit /\ form.published)
          => /\ ContainsActiveUnsupported(form.schema)
                => /\ submit'.pc = "done"
                   /\ submit'.response = UnsupportedSchemaResponse
                   /\ ~submit'.called
                   /\ submissions' = submissions
             /\ ~ContainsActiveUnsupported(form.schema)
                => submit'.response # UnsupportedSchemaResponse]_vars

\* A submit to the form whose active rule uses the operator "matches" was
\* answered 422 UNSUPPORTED_FORM_SCHEMA.
C29_Witness ==
    /\ submit.pc = "done"
    /\ submit.response = UnsupportedSchemaResponse
    /\ form.published
    /\ UnsupportedOperatorIn(ActiveLogic(form.schema))
    /\ ~UnsupportedFieldType(form.schema)

\* C30: the steps of one request run in the order rate-limit check, form load,
\* contract parse, sanitization and validation, quota check, persist; a step
\* starts only when the one before it succeeded, and submit_form is called
\* only from the last step with the data the earlier steps produced.
C30_StepsInOrder ==
    [][/\ submit'.pc # submit.pc
          => \/ submit'.pc = "rate_limit" /\ submit.pc \in {"idle", "done"}
             \/ /\ submit'.pc = "load_form" /\ submit.pc = "rate_limit"
                /\ rateCount < RateLimitPerWindow
                /\ rateCount' = rateCount + 1
             \/ /\ submit'.pc = "quota" /\ submit.pc = "load_form"
                /\ form.published
                /\ parsePublishedContract(form.schema).ok
                /\ submit'.parsed
                /\ submit'.contract = parsePublishedContract(form.schema).contract
                /\ sanitizeAndValidateData(submit'.contract, submit.data).ok
                /\ submit'.sanitized
                      = sanitizeAndValidateData(submit'.contract, submit.data).sanitizedData
             \/ /\ submit'.pc = "submit_form" /\ submit.pc = "quota"
                /\ quotaCfg.is_enabled
                /\ quotaCfg.limit_value >= 0 => Len(submissions) < quotaCfg.limit_value
             \/ submit'.pc = "done" /\ submit.pc \in {"rate_limit", "load_form", "quota", "submit_form"}
       /\ (submissions' # submissions \/ (submit'.called /\ ~submit.called))
          => /\ submit.pc = "submit_form"
             /\ submit.parsed
             /\ submit'.handed = submit.sanitized
             /\ submit'.response.status = 201]_vars

\* A request went through every step and was persisted.
C30_Witness ==
    /\ submit.pc = "done"
    /\ submit.called
    /\ submit.parsed
    /\ submit.response.status = 201
    /\ Len(submissions) > 0


(***************************************************************************)
(* Failure of the rate-limit check                                         *)
(***************************************************************************)
\* C31: when check_request fails without a rate-limit signal, the request is
\* answered 500 with code RATE_LIMIT_CHECK_FAILED and no later step runs.
C31_RateLimitFailureFailsClosed ==
    [][(/\ submit.pc = "rate_limit"
        /\ submit'.pc = "done"
        /\ submit'.response.status # 429)
          => /\ submit'.response.status = 500
             /\ submit'.response.code = "RATE_LIMIT_CHECK_FAILED"
             /\ ~submit'.parsed
             /\ ~submit'.called
             /\ submissions' = submissions]_vars


(***************************************************************************)
(* Catalog sync                                                            *)
(***************************************************************************)
\* The price's lookup key and its metadata name different plan slugs or intervals.
LookupAndMetadataDisagree(price) ==
    LET lookup == parseLookupKey(price.lookup_key)
    IN  /\ lookup # NoLookup
        /\ \/ price.metadata.plan_slug \notin {NULL, lookup.planSlug}
           \/ price.metadata.interval \notin {NULL, lookup.interval}

\* C32: when the lookup key and the metadata of a price disagree, the sync
\* gives the price to the variant the lookup key names.
C32_LookupKeyWins ==
    [][(/\ variants' # variants
        /\ LookupAndMetadataDisagree(upstreamPrice))
          => LET lookup == parseLookupKey(upstreamPrice.lookup_key)
                 key == [planSlug |-> lookup.planSlug, interval |-> lookup.interval]
             IN  /\ variants'[key].stripe_price_id = upstreamPrice.id
                 /\ \A k \in VariantKeys \ {key} : variants'[k] = variants[k]]_vars


(***************************************************************************)
(* Late subscription events                                                *)
(***************************************************************************)
\* The rows whose last sync wrote the upstream status canceled; upstream, a
\* canceled subscription never changes status again.
SyncedCanceledIds(rows) ==
    {i \in RowIds(rows) : rows[i].stripe_status = "canceled" /\ rows[i].status = "canceled"}

\* C33: once a subscription was synced to canceled, applying a delayed event
\* of that subscription does not make its row entitled again and does not
\* put the paid plan back into the plan cache.
C33_CanceledStaysCanceled ==
    [][\A i \in SyncedCanceledIds(subscriptions) :
          /\ subscriptions'[i].status \notin ENTITLED_SUBSCRIPTION_STATUSES
          /\ (workspacePlan = FREE_PLAN_SLUG /\ EntitledPlanSlug(subscriptions) = FREE_PLAN_SLUG)
                => workspacePlan' = FREE_PLAN_SLUG]_vars


(***************************************************************************)
(* Grace pass against concurrent payment                                   *)
(***************************************************************************)
\* The row the grace pass selected has since left past_due, or its
\* grace_period_end was cleared or moved past now.
NoLongerExpired(row) ==
    \/ row.status # "past_due"
    \/ row.grace_period_end = NoTime
    \/ row.grace_period_end > now

\* C34: the grace pass leaves alone a selected row that stopped being
\* past_due, or whose grace period was cleared or extended, between the
\* pass's select and its cancel write.
C34_GracePassRechecks ==
    [][\A i \in RowIds(subscriptions) :
          (/\ jobs[CronJob].pc = "grace_cancel"
           /\ jobs[CronJob].rows # <<>>
           /\ Head(jobs[CronJob].rows) = i
           /\ NoLongerExpired(subscriptions[i]))
              => subscriptions'[i].status = subscriptions[i].status]_vars


(***************************************************************************)
(* Completed ledger rows                                                   *)
(***************************************************************************)
\* C35: once a ledger row is completed, its status and its session id never
\* change, whatever a concurrent failing request or a retry of the key does.
C35_CompletedRowFrozen ==
    [][ledger.status = "completed"
          => /\ ledger'.status = "completed"
             /\ ledger'.stripe_checkout_session_id = ledger.stripe_checkout_session_id]_vars

\* C35 witness: a request that began on the completed row ran into the catch
\* block and was answered with the failure, and the row is still completed.
C35_Witness ==
    /\ ledger.status = "completed"
    /\ ledger.stripe_checkout_session_id # NULL
    /\ \E r \in Requests :
          /\ checkouts[r].pc = "done"
          /\ checkouts[r].replay
          /\ checkouts[r].response.kind = "STRIPE_CHECKOUT_SESSION_FAILED"


(***************************************************************************)
(* Progress of the ledger row                                              *)
(***************************************************************************)
\* C36: a ledger row that a request put in in_progress eventually becomes
\* completed or failed, so retries are not answered CHECKOUT_IN_PROGRESS for
\* the rest of the row's lifetime.
C36_InProgressEnds ==
    (ledger.status = "in_progress") ~> (ledger.status \in {"completed", "failed"})


(***************************************************************************)
(* Quota under concurrent submissions                                      *)
(***************************************************************************)
\* C37: with a limit_value of zero or more, no submission is persisted when
\* the usage has already reached the limit, so concurrent submissions cannot
\* push the usage above it.
C37_QuotaHoldsUnderRace ==
    [][(/\ quotaCfg.limit_value >= 0
        /\ get_form_submission_quota(quotaCfg, submissions).current_usage >= quotaCfg.limit_value)
          => submissions' = submissions]_vars


(***************************************************************************)
(* Validation of persisted values                                          *)
(***************************************************************************)
\* C38: every value handed to submit_form is one the validator of its field
\* accepts.
C38_PersistedValuesValid ==
    [][(submit.pc = "submit_form" /\ submit'.called)
          => \A f \in DOMAIN submit'.handed :
                validateFieldValue(submit.contract.fields[f], submit'.handed[f]) = NULL]_vars


(***************************************************************************)
(* Concurrent creation of the customer mapping                             *)
(***************************************************************************)
\* The call has returned 200 after creating a customer of its own.
ReturnedAfterCreate(c) == c.pc = "idle" /\ c.response = 200 /\ c.made # NULL

\* C39: when two calls create the mapping of one workspace concurrently, one
\* mapping row results and both calls run their session operation with the
\* customer id of that row.
C39_RaceEndsOnOneCustomer ==
    (/\ ReturnedAfterCreate(call)
     /\ ReturnedAfterCreate(parkedCall)
     /\ call.made # parkedCall.made)
        => /\ mapping # NULL
           /\ call.customer = mapping
           /\ parkedCall.customer = mapping

\* C39 witness: both calls created a customer, one insert lost with 23505, and
\* both returned 200 on the winner's customer.
C39_Witness ==
    /\ ReturnedAfterCreate(call)
    /\ ReturnedAfterCreate(parkedCall)
    /\ call.made # parkedCall.made
    /\ call.customer = mapping
    /\ parkedCall.customer = mapping
    /\ call.executes = 1
    /\ parkedCall.executes = 1


(***************************************************************************)
(* Optimistic locking of draft saves                                       *)
(***************************************************************************)
\* Two finished saves that carried the same version, each of which arrived
\* while the row held that version (so neither began after the other's write).
ConcurrentSaves(e1, e2) ==
    /\ e1 # e2
    /\ saves[e1].pc = "done"
    /\ saves[e2].pc = "done"
    /\ saves[e1].version = saves[e2].version
    /\ saves[e1].seen = saves[e1].version
    /\ saves[e2].seen = saves[e2].version

\* Of the two saves, e1 was answered 200 and e2 409 with the stored version.
OneWonOtherConflicted(e1, e2) ==
    /\ saves[e1].response.status = 200
    /\ saves[e2].response.status = 409
    /\ saves[e2].response.current_version > saves[e2].version
    /\ saves[e2].response.current_version <= draft.version

\* C40: a save succeeds only if the stored version equals the version it
\* carries, and then stores that version plus one; of two concurrent saves
\* with the same version on a form that is not deleted, exactly one succeeds
\* and the other is answered 409 with current_version.
C40_OptimisticLock ==
    [][/\ \A e \in Savers :
             (saves[e].pc = "update" /\ saves'[e].pc # "update")
                => /\ (saves'[e].response.status = 200)
                          <=> (~draft.deleted /\ draft.version = saves[e].version)
                   /\ IF saves'[e].response.status = 200
                      THEN /\ draft'.version = saves[e].version + 1
                           /\ draft'.schema = saves[e].schema
                      ELSE draft' = draft
       /\ \A e1, e2 \in Savers :
             (ConcurrentSaves(e1, e2) /\ ~draft.deleted)'
                => (OneWonOtherConflicted(e1, e2) \/ OneWonOtherConflicted(e2, e1))']_vars

\* C40 witness: two saves carrying version 1 met the new form; one was
\* answered 200 and the other 409 with current_version 2.
C40_Witness ==
    \E e1, e2 \in Savers :
        /\ ConcurrentSaves(e1, e2)
        /\ saves[e1].version = 1
        /\ saves[e1].response.status = 200
        /\ saves[e2].response.status = 409
        /\ saves[e2].response.current_version = 2
        /\ draft.schema = saves[e1].schema
        /\ saves[e1].schema # saves[e2].schema

====
